---- MODULE Spec2Model ----
(***************************************************************************)
(* Binary metadata protocol of typescript-rtti: the string interner, the   *)
(* record encoder (RTTISerializer), the record decoder (decodeRTTIEntry),  *)
(* the container assembled by the compiler's main, and the MetadataStore   *)
(* that loads it.                                                          *)
(*                                                                         *)
(* Conventions.  A byte buffer is a sequence of numbers 0..255; buffer     *)
(* offsets are 0-based as in the source, so the byte at offset o of buf is *)
(* buf[o + 1].  A JavaScript string is the sequence of its code points;   *)
(* the strings of the model have code points below U+0800, which UTF-8     *)
(* encodes in one or two bytes.                                            *)
(* The JavaScript value undefined is the constant Undefined.               *)
(***************************************************************************)
EXTENDS Integers, Sequences, FiniteSets, TLC

\* ------------------------------------------------------------------------
\* 32-bit integer arithmetic of JavaScript's bitwise operators
\* ------------------------------------------------------------------------

Half31 == 1073741824

\* bit i (0..31) of the two's complement int32 v
Bit(v, i) ==
  IF i = 31 THEN v < 0
  ELSE LET u == IF v < 0 THEN (v + Half31) + Half31 ELSE v
       IN  (u \div (2 ^ i)) % 2 = 1

\* the sum of 2^i over the bits lo..hi that are set in f
RECURSIVE SumBits(_, _, _)
SumBits(f, lo, hi) ==
  IF lo = hi THEN (IF f[lo] THEN 2 ^ lo ELSE 0)
  ELSE SumBits(f, lo, (lo + hi) \div 2) + SumBits(f, (lo + hi) \div 2 + 1, hi)

\* the int32 whose bits are f[0..31]
FromBits(f) ==
  IF f[31] THEN (SumBits(f, 0, 30) - Half31) - Half31 ELSE SumBits(f, 0, 30)

\* a | b on int32
Or32(a, b) == FromBits([i \in 0..31 |-> Bit(a, i) \/ Bit(b, i)])

\* x << s on int32 (the shift count is taken modulo 32)
Shl32(x, s) ==
  LET k == s % 32
  IN  FromBits([i \in 0..31 |-> i >= k /\ Bit(x, i - k)])

\* ------------------------------------------------------------------------
\* protocol.ts: constants, varints, StringTable
\* ------------------------------------------------------------------------

REF_PRIMITIVE == 1
REF_ARRAY == 2
REF_OBJECT == 3
REF_CLASS == 4
REF_FUNCTION == 5
REF_GENERIC == 6
REF_UNION == 7
REF_INTERSECTION == 8
REF_ENUM == 9
REF_LITERAL == 10
REF_MAPPED == 11
REF_CONDITIONAL == 12

PROTOCOL_VERSION == 1
FEATURE_BITMAP == 1
HEADER_SIZE == 32
INDEX_ENTRY_SIZE == 24
\* META_MAGIC 0x4d455441 as the four bytes writeUInt32LE stores
META_MAGIC_LE == <<65, 84, 69, 77>>

Undefined == <<-1>>

\* encodeVarint with arr.push(num & 0x7f) in the loop: no continuation bit
RECURSIVE encodeVarintNoContinuation(_)
encodeVarintNoContinuation(num) ==
  IF num > 127
    THEN <<num % 128>> \o encodeVarintNoContinuation(num \div 128)
    ELSE <<num>>

\* encodeVarint(num) for a number 0 <= num < 2^31
RECURSIVE encodeVarint(_)
encodeVarint(num) ==
  IF num > 127
    THEN <<(num % 128) + 128>> \o encodeVarint(num \div 128)
    ELSE <<num>>

\* decodeVarint(buf, offset); a read at or beyond buf.length yields
\* undefined, which the bit operators turn into 0.  oob records that such a
\* read happened.
RECURSIVE decodeVarintLoop(_, _, _, _, _)
decodeVarintLoop(buf, next, value, shift, oob) ==
  LET inb == next < Len(buf)
      b == IF inb THEN buf[next + 1] ELSE 0
      v2 == Or32(value, Shl32(b % 128, shift))
      oob2 == oob \/ ~inb
  IN  IF b < 128
        THEN [value |-> v2, next |-> next + 1, oob |-> oob2]
        ELSE decodeVarintLoop(buf, next + 1, v2, shift + 7, oob2)

decodeVarint(buf, offset) == decodeVarintLoop(buf, offset, 0, 0, FALSE)

\* StringTable: strings is the Map (pairs <<key, index>> in insertion
\* order), reverse the array.  A key is a string, or the identity of an
\* object when the serializer passes one.
EmptyStringTable == [strings |-> <<>>, reverse |-> <<>>]

MapHas(m, key) == \E i \in 1..Len(m) : m[i][1] = key
MapGet(m, key) ==
  IF MapHas(m, key)
    THEN m[CHOOSE i \in 1..Len(m) : m[i][1] = key][2]
    ELSE -1

\* the value StringTable.add(str) returns
AddIndex(tab, str) ==
  IF MapHas(tab.strings, str) THEN MapGet(tab.strings, str)
  ELSE Len(tab.reverse)

\* StringTable.add without the has(str) test
AddTableNoDedup(tab, str) ==
  [strings |-> Append(tab.strings, <<str, Len(tab.reverse)>>),
   reverse |-> Append(tab.reverse, str)]

\* the table after StringTable.add(str)
AddTable(tab, str) ==
  IF MapHas(tab.strings, str) THEN tab
  ELSE [strings |-> Append(tab.strings, <<str, Len(tab.reverse)>>),
        reverse |-> Append(tab.reverse, str)]

\* getOffset(str): the index, or -1 for undefined
getOffset(tab, str) == MapGet(tab.strings, str)

\* getByOffset(offset)
getByOffset(tab, offset) ==
  IF offset >= 0 /\ offset < Len(tab.reverse)
    THEN tab.reverse[offset + 1] ELSE Undefined

\* entries(): the keys of the Map in insertion order
entries(tab) == [i \in 1..Len(tab.strings) |-> tab.strings[i][1]]

\* fnv1aHash(str).  The 32-bit hash is kept as its four bytes in
\* little-endian order (what writeUInt32LE stores).
RECURSIVE Xor8(_, _, _)
Xor8(a, b, i) ==
  IF i > 7 THEN 0
  ELSE (IF ((a \div (2 ^ i)) % 2) # ((b \div (2 ^ i)) % 2) THEN 2 ^ i ELSE 0)
       + Xor8(a, b, i + 1)

\* Math.imul(hash, 0x01000193) >>> 0 on the four bytes:
\* 0x01000193 = 2^24 + 403
FnvMul(h) ==
  LET t0 == h[1] * 403
      t1 == h[2] * 403 + (t0 \div 256)
      t2 == h[3] * 403 + (t1 \div 256)
      t3 == h[4] * 403 + (t2 \div 256)
  IN  <<t0 % 256, t1 % 256, t2 % 256, (t3 + h[1]) % 256>>

RECURSIVE fnv1aLoop(_, _, _)
fnv1aLoop(str, i, h) ==
  IF i > Len(str) THEN h
  ELSE fnv1aLoop(str, i + 1,
         FnvMul(<<Xor8(h[1], str[i] % 256, 0),
                  Xor8(h[2], str[i] \div 256, 0), h[3], h[4]>>))

\* 0x811c9dc5 is the offset basis
fnv1aHash(str) == fnv1aLoop(str, 1, <<197, 157, 28, 129>>)

\* ------------------------------------------------------------------------
\* Byte-level helpers (Buffer / DataView / TextEncoder)
\* ------------------------------------------------------------------------

Zeros(n) == [i \in 1..n |-> 0]

\* writeUInt32LE / writeUInt16LE of a number below 2^31
U32LE(n) ==
  <<n % 256, (n \div 256) % 256, (n \div 65536) % 256, (n \div 16777216) % 256>>
U16LE(n) == <<n % 256, (n \div 256) % 256>>

\* DataView.setInt32(0, v, true) of an int32
Int32LE(v) ==
  IF v >= 0 THEN U32LE(v)
  ELSE LET m == (v + Half31) + Half31
       IN  <<m % 256, (m \div 256) % 256, (m \div 65536) % 256,
             ((m \div 16777216) % 128) + 128>>

\* the byte of buf at a 0-based offset, 0 for a read of undefined
ByteAt(buf, o) == IF o >= 0 /\ o < Len(buf) THEN buf[o + 1] ELSE 0

\* readUInt32LE(o) / readUInt16LE(o), the value below 2^31
readUInt32LE(buf, o) ==
  buf[o + 1] + 256 * buf[o + 2] + 65536 * buf[o + 3] + 16777216 * buf[o + 4]
readUInt16LE(buf, o) == buf[o + 1] + 256 * buf[o + 2]

\* subarray(a, b) / slice(a, b) for 0 <= a: the end is clamped to the
\* buffer, and a range that starts at or past its end is empty
subarray(buf, a, b) ==
  IF b <= a \/ Len(buf) <= a THEN <<>>
  ELSE [i \in 1..((IF b > Len(buf) THEN Len(buf) ELSE b) - a) |-> buf[a + i]]

RECURSIVE concatUint8Arrays(_)
concatUint8Arrays(arrays) ==
  IF arrays = <<>> THEN <<>>
  ELSE Head(arrays) \o concatUint8Arrays(Tail(arrays))

\* a key of the StringTable that is an object is the identity of that
\* object: the identity of the record's data graph and the place in it
Field ==
  [generics |-> 1, members |-> 2, valueType |-> 3, checkType |-> 4,
   extendsType |-> 5, trueType |-> 6, falseType |-> 7]
ObjKey(did, field, i) == <<-2, did, field, i>>
IsObjKey(key) == key # <<>> /\ key[1] = -2

\* String(obj) = "[object Object]"
ObjectObject == <<91, 111, 98, 106, 101, 99, 116, 32, 79, 98, 106, 101, 99, 116, 93>>
JsToString(key) == IF IsObjKey(key) THEN ObjectObject ELSE key

\* TextEncoder.encode: a string is the sequence of its code points, all
\* below U+0800 in the model: one byte below U+0080, two bytes from there
RECURSIVE Utf8EncodeRange(_, _, _)
Utf8EncodeRange(str, lo, hi) ==
  IF lo > hi THEN <<>>
  ELSE IF lo = hi
    THEN (IF str[lo] < 128 THEN <<str[lo]>>
          ELSE <<192 + (str[lo] \div 64), 128 + (str[lo] % 64)>>)
  ELSE Utf8EncodeRange(str, lo, (lo + hi) \div 2)
       \o Utf8EncodeRange(str, (lo + hi) \div 2 + 1, hi)

Utf8Encode(str) == Utf8EncodeRange(str, 1, Len(str))

\* TextDecoder.decode of one- and two-byte sequences: a lead byte C2..DF
\* with a continuation byte 80..BF is one code point, and every other byte
\* that is not ASCII decodes to U+FFFD
IsLead(b) == b >= 194 /\ b <= 223
IsContinuation(b) == b >= 128 /\ b <= 191

\* the code point that starts at byte i, -1 when byte i continues one
Utf8At(bytes, i) ==
  IF i > 1 /\ IsLead(bytes[i - 1]) /\ IsContinuation(bytes[i]) THEN -1
  ELSE IF bytes[i] < 128 THEN bytes[i]
  ELSE IF IsLead(bytes[i]) /\ i < Len(bytes) /\ IsContinuation(bytes[i + 1])
    THEN (bytes[i] - 192) * 64 + (bytes[i + 1] - 128)
  ELSE 65533

Utf8Decode(bytes) ==
  SelectSeq([i \in 1..Len(bytes) |-> Utf8At(bytes, i)], LAMBDA cp : cp >= 0)

\* ------------------------------------------------------------------------
\* serializer.ts: RTTISerializer.serializeMetadata
\*
\* The encoder state st carries the string table (tab), the bytes pushed so
\* far (out, the concatenation of chunks) and two logs that are not program
\* state: refs lists, for every TypeRef of the record the encoder reaches,
\* the offsets where its encoding starts and ends and the TypeRef; decos does
\* the same for every annotation list, with the site it belongs to.
\* ------------------------------------------------------------------------

\* a TypeRef-valued field that holds undefined, or null
NoRef == [kind |-> "undefined"]
NullRef == [kind |-> "null"]

\* rec.field ?? dflt for a field that may be missing
OrElse(rec, field, dflt) == IF field \in DOMAIN rec THEN rec[field] ELSE dflt

\* chunks.push(bytes)
Push(st, bytes) == [st EXCEPT !.out = @ \o bytes]

\* const idx = this.stringTable.add(key); chunks.push(encodeVarint(idx))
PushAdd(st, key) ==
  [st EXCEPT !.tab = AddTable(@, key),
             !.out = @ \o encodeVarint(AddIndex(st.tab, key))]

LogRef(st, start, ref) ==
  [st EXCEPT !.refs = Append(@, [start |-> start, end |-> Len(st.out), ref |-> ref])]

LogDecos(st, start, site, list) ==
  [st EXCEPT !.decos = Append(@, [start |-> start, end |-> Len(st.out),
                                  site |-> site, list |-> list])]

\* chunks.push(encodeVarint(x.type ?? 0)) where x.type is a TypeRef object:
\* in encodeVarint, obj > 127 compares NaN and is false, arr.push(obj), and
\* Uint8Array.from stores NaN as 0
PushTypeObject(st, ref) == LogRef(Push(st, <<0>>), Len(st.out), ref)

\* const idx = this.stringTable.add(m); chunks.push(encodeVarint(idx))
\* where m is a TypeRef object
PushAddTypeObject(st, key, ref) == LogRef(PushAdd(st, key), Len(st.out), ref)

RECURSIVE SerArgs(_, _, _)
SerArgs(st, args, a) ==
  IF a > Len(args) THEN st ELSE SerArgs(PushAdd(st, args[a]), args, a + 1)

RECURSIVE SerDecos(_, _, _)
SerDecos(st, decos, d) ==
  IF d > Len(decos) THEN st
  ELSE SerDecos(
         SerArgs(Push(PushAdd(st, decos[d].name),
                      encodeVarint(Len(decos[d].args))),
                 decos[d].args, 1),
         decos, d + 1)

\* an annotation list written without its count
SerDecoratorListNoCount(st, decos) == SerDecos(st, decos, 1)

\* count, then per annotation: name index, argument count, argument indices
SerDecoratorList(st, decos) ==
  SerDecos(Push(st, encodeVarint(Len(decos))), decos, 1)

\* the five places where the encoder writes an annotation list
SerMemberDecorators(st, prop) ==
  LogDecos(SerDecoratorList(st, OrElse(prop, "decorators", <<>>)),
           Len(st.out), "member", OrElse(prop, "decorators", <<>>))

SerParamDecorators(st, param) ==
  LogDecos(SerDecoratorList(st, OrElse(param, "decorators", <<>>)),
           Len(st.out), "parameter", OrElse(param, "decorators", <<>>))

SerTypeDecorators(st, data) ==
  LogDecos(SerDecoratorList(st, OrElse(data, "decorators", <<>>)),
           Len(st.out), "declaration", OrElse(data, "decorators", <<>>))

SerFunctionParamDecorators(st, param) ==
  LogDecos(SerDecoratorList(st, OrElse(param, "decorators", <<>>)),
           Len(st.out), "parameter", OrElse(param, "decorators", <<>>))

SerFunctionDecorators(st, data) ==
  LogDecos(SerDecoratorList(st, OrElse(data, "decorators", <<>>)),
           Len(st.out), "declaration", OrElse(data, "decorators", <<>>))

\* parameters of a member
RECURSIVE SerMemberParams(_, _, _)
SerMemberParams(st, params, p) ==
  IF p > Len(params) THEN st
  ELSE SerMemberParams(
         SerParamDecorators(
           PushTypeObject(PushAdd(st, params[p].name), params[p].type),
           params[p]),
         params, p + 1)

\* one member of a class or object record
SerProp(st, prop) ==
  LET s1 == PushAdd(st, prop.name)
      s2 == PushTypeObject(s1, prop.type)
      s3 == Push(s2, encodeVarint(OrElse(prop, "flags", 0)))
      s4 == SerMemberDecorators(s3, prop)
  IN  IF "parameters" \in DOMAIN prop
        THEN SerMemberParams(Push(s4, encodeVarint(Len(prop.parameters))),
                             prop.parameters, 1)
        ELSE Push(s4, encodeVarint(0))

RECURSIVE SerProps(_, _, _)
SerProps(st, props, i) ==
  IF i > Len(props) THEN st ELSE SerProps(SerProp(st, props[i]), props, i + 1)

\* generics: each element of the list (an object {name, constraint}) is
\* interned as if it were the name
RECURSIVE SerGenerics(_, _, _, _)
SerGenerics(st, did, generics, i) ==
  IF i > Len(generics) THEN st
  ELSE SerGenerics(PushAdd(st, ObjKey(did, Field.generics, i)),
                   did, generics, i + 1)

RECURSIVE SerBases(_, _, _)
SerBases(st, bases, i) ==
  IF i > Len(bases) THEN st ELSE SerBases(PushAdd(st, bases[i]), bases, i + 1)

SerClass(st, meta) ==
  LET props == OrElse(meta.data, "props", <<>>)
      generics == OrElse(meta.data, "generics", <<>>)
      bases == OrElse(meta.data, "bases", <<>>)
      s1 == SerProps(Push(st, encodeVarint(Len(props))), props, 1)
      s2 == SerGenerics(Push(s1, encodeVarint(Len(generics))),
                        meta.did, generics, 1)
      s3 == SerTypeDecorators(s2, meta.data)
  IN  SerBases(Push(s3, encodeVarint(Len(bases))), bases, 1)

RECURSIVE SerFunctionParams(_, _, _)
SerFunctionParams(st, params, p) ==
  IF p > Len(params) THEN st
  ELSE SerFunctionParams(
         SerFunctionParamDecorators(
           PushTypeObject(PushAdd(st, params[p].name), params[p].type),
           params[p]),
         params, p + 1)

SerFunction(st, meta) ==
  LET d == meta.data
      s1 == SerFunctionParams(Push(st, encodeVarint(Len(d.params))),
                              d.params, 1)
      s2 == PushTypeObject(s1, d.returnType)
      s3 == SerGenerics(Push(s2, encodeVarint(Len(d.generics))),
                        meta.did, d.generics, 1)
  IN  SerFunctionDecorators(s3, d)

\* An enum value is [num |-> n] or [inf |-> TRUE], the number Infinity
\* (typeof value === "number"), or [str |-> s], or [null |-> TRUE], the null
\* JSON.parse returns.  setInt32 stores ToInt32 of the number, 0 for
\* Infinity; String(null) is "null".
SerEnumValue(st, value) ==
  IF "num" \in DOMAIN value
    THEN Push(Push(st, <<255>>), Int32LE(value.num))
  ELSE IF "inf" \in DOMAIN value
    THEN Push(Push(st, <<255>>), Int32LE(0))
  ELSE IF "null" \in DOMAIN value
    THEN Push(Push(st, encodeVarint(4)), <<110, 117, 108, 108>>)
    ELSE Push(Push(st, encodeVarint(Len(Utf8Encode(value.str)))),
              Utf8Encode(value.str))

RECURSIVE SerEnumMembers(_, _, _)
SerEnumMembers(st, members, i) ==
  IF i > Len(members) THEN st
  ELSE SerEnumMembers(SerEnumValue(PushAdd(st, members[i].name),
                                   members[i].value),
                      members, i + 1)

SerEnum(st, meta) ==
  LET members == OrElse(meta.data, "members", <<>>)
  IN  SerEnumMembers(Push(st, encodeVarint(Len(members))), members, 1)

RECURSIVE SerUnionMembers(_, _, _, _)
SerUnionMembers(st, did, members, i) ==
  IF i > Len(members) THEN st
  ELSE SerUnionMembers(
         PushAddTypeObject(st, ObjKey(did, Field.members, i), members[i]),
         did, members, i + 1)

SerUnion(st, meta) ==
  LET members == OrElse(meta.data, "members", <<>>)
  IN  SerUnionMembers(Push(st, encodeVarint(Len(members))),
                      meta.did, members, 1)

\* keyIdx and valIdx are both interned before either is pushed
SerMapped(st, meta) ==
  LET keyIdx == AddIndex(st.tab, meta.data.keyName)
      t1 == AddTable(st.tab, meta.data.keyName)
      valKey == ObjKey(meta.did, Field.valueType, 0)
      valIdx == AddIndex(t1, valKey)
      s1 == Push([st EXCEPT !.tab = AddTable(t1, valKey)], encodeVarint(keyIdx))
  IN  LogRef(Push(s1, encodeVarint(valIdx)), Len(s1.out), meta.data.valueType)

SerConditional(st, meta) ==
  LET d == meta.data
      s1 == PushAddTypeObject(st, ObjKey(meta.did, Field.checkType, 0), d.checkType)
      s2 == PushAddTypeObject(s1, ObjKey(meta.did, Field.extendsType, 0), d.extendsType)
      s3 == PushAddTypeObject(s2, ObjKey(meta.did, Field.trueType, 0), d.trueType)
  IN  PushAddTypeObject(s3, ObjKey(meta.did, Field.falseType, 0), d.falseType)

\* the encoder state in which serializeMetadata(meta) ends when it starts
\* with the string table tab
SerializeState(tab, meta) ==
  LET s0 == [tab |-> tab, out |-> <<>>, refs |-> <<>>, decos |-> <<>>]
      s1 == Push(s0, <<meta.kind>>)
      s2 == Push(s1, encodeVarint(IF getOffset(tab, meta.fqName) = -1
                                    THEN 0 ELSE getOffset(tab, meta.fqName)))
  IN  CASE meta.kind = REF_PRIMITIVE -> Push(s2, encodeVarint(meta.data))
        [] meta.kind \in {REF_CLASS, REF_OBJECT} -> SerClass(s2, meta)
        [] meta.kind = REF_FUNCTION -> SerFunction(s2, meta)
        [] meta.kind = REF_ENUM -> SerEnum(s2, meta)
        [] meta.kind \in {REF_UNION, REF_INTERSECTION} -> SerUnion(s2, meta)
        [] meta.kind = REF_MAPPED -> SerMapped(s2, meta)
        [] meta.kind = REF_CONDITIONAL -> SerConditional(s2, meta)
        [] OTHER -> s2

\* the bytes serializeMetadata returns
serializeMetadata(tab, meta) == SerializeState(tab, meta).out

\* ------------------------------------------------------------------------
\* decoder: decodeRTTITypeRef, decodeRTTIEntry
\*
\* The decoder walks the buffer with a mutable offset.  A cursor holds the
\* offset (off), whether some byte was read at an index at or beyond
\* buf.length (oob), and the values read so far, newest last (v).  strs is
\* the list getString indexes.
\* ------------------------------------------------------------------------

Cursor(offset) == [off |-> offset, oob |-> FALSE, v |-> <<>>]

Top(c) == c.v[Len(c.v)]
Below(c, i) == c.v[Len(c.v) - i]

\* val pushed
Put(c, val) == [c EXCEPT !.v = Append(c.v, val)]

\* the newest n values replaced by val
Fold(c, n, val) == [c EXCEPT !.v = Append(SubSeq(c.v, 1, Len(c.v) - n), val)]

\* A loop for (i = 0; i < count; i++) pushes one value per turn above its
\* count, which is the at-th value read: i is the number of values above it
Done(c, at) == Len(c.v) - at >= c.v[at]

\* the values a loop pushed, and the count below them, replaced by their
\* list
Gather(c, at) ==
  [c EXCEPT !.v = Append(SubSeq(c.v, 1, at - 1), SubSeq(c.v, at + 1, Len(c.v)))]

\* x = decodeVarint(buf, offset).value; offset = decodeVarint(buf, offset).next
Advance(c, d) ==
  [oob |-> c.oob \/ d.oob, off |-> d.next, v |-> Append(c.v, d.value)]

RdVarint(buf, c) == Advance(c, decodeVarint(buf, c.off))

\* x = buf[offset++]
RdByte(buf, c) ==
  [off |-> c.off + 1, oob |-> c.oob \/ c.off >= Len(buf),
   v |-> Append(c.v, ByteAt(buf, c.off))]

\* getString(idx) = strings[idx]
GetString(strs, idx) ==
  IF idx >= 0 /\ idx < Len(strs) THEN strs[idx + 1] ELSE Undefined

\* the newest value, an index, replaced by getString of it
AsString(strs, c) == Fold(c, 1, GetString(strs, Top(c)))

RdString(buf, strs, c) == AsString(strs, RdVarint(buf, c))

\* decodeRTTITypeRef: tag, then the primitive tag or the index of the name
MkTypeRef(strs, c) ==
  Fold(c, 2, IF Below(c, 1) = 0
               THEN [kind |-> "primitive", type |-> Top(c)]
               ELSE [kind |-> "ref", fqName |-> GetString(strs, Top(c))])

RdTypeRef(buf, strs, c) == MkTypeRef(strs, RdVarint(buf, RdVarint(buf, c)))

RefResult(c) == [ref |-> Top(c), next |-> c.off, oob |-> c.oob]

decodeRTTITypeRef(buf, offset, strs) ==
  RefResult(RdTypeRef(buf, strs, Cursor(offset)))

\* the argument indices of one annotation
RECURSIVE RdArgs(_, _, _, _)
RdArgs(buf, strs, c, at) ==
  IF Done(c, at) THEN c
  ELSE RdArgs(buf, strs, RdString(buf, strs, c), at)

RdArgList(buf, strs, c) == Gather(RdArgs(buf, strs, c, Len(c.v)), Len(c.v))

MkDeco(c) == Fold(c, 2, [name |-> Below(c, 1), args |-> Top(c)])

\* one annotation: name index, argument count, argument indices
RdDeco(buf, strs, c) ==
  MkDeco(RdArgList(buf, strs, RdVarint(buf, RdString(buf, strs, c))))

RECURSIVE RdDecos(_, _, _, _)
RdDecos(buf, strs, c, at) ==
  IF Done(c, at) THEN c
  ELSE RdDecos(buf, strs, RdDeco(buf, strs, c), at)

RdDecoList(buf, strs, c) == Gather(RdDecos(buf, strs, c, Len(c.v)), Len(c.v))

\* count, then the annotations
RdDecoratorList(buf, strs, c) == RdDecoList(buf, strs, RdVarint(buf, c))

\* the five places where the decoder reads an annotation list
RdMemberDecorators(buf, strs, c) == RdDecoratorList(buf, strs, c)
RdParamDecorators(buf, strs, c) == RdDecoratorList(buf, strs, c)
RdTypeDecorators(buf, strs, c) == RdDecoratorList(buf, strs, c)
RdFunctionParamDecorators(buf, strs, c) == RdDecoratorList(buf, strs, c)
RdFunctionDecorators(buf, strs, c) == RdDecoratorList(buf, strs, c)

MkParam(c) ==
  Fold(c, 3, [name |-> Below(c, 2), type |-> Below(c, 1),
              decorators |-> Top(c)])

\* one parameter of a member: name, TypeRef, annotations
RdMemberParam(buf, strs, c) ==
  MkParam(RdParamDecorators(buf, strs,
            RdTypeRef(buf, strs, RdString(buf, strs, c))))

RECURSIVE RdMemberParams(_, _, _, _)
RdMemberParams(buf, strs, c, at) ==
  IF Done(c, at) THEN c
  ELSE RdMemberParams(buf, strs, RdMemberParam(buf, strs, c), at)

\* parameters stays undefined when paramCt is 0
RdMemberParamList(buf, strs, c) ==
  IF Top(c) > 0
    THEN Gather(RdMemberParams(buf, strs, c, Len(c.v)), Len(c.v))
    ELSE Fold(c, 1, Undefined)

MkProp(c) ==
  Fold(c, 5, [name |-> Below(c, 4), type |-> Below(c, 3),
              flags |-> Below(c, 2), decorators |-> Below(c, 1),
              parameters |-> Top(c)])

\* one member: name, TypeRef, flags, annotations, parameters
RdProp(buf, strs, c) ==
  MkProp(RdMemberParamList(buf, strs,
    RdVarint(buf, RdMemberDecorators(buf, strs,
      RdVarint(buf, RdTypeRef(buf, strs, RdString(buf, strs, c)))))))

RECURSIVE RdProps(_, _, _, _)
RdProps(buf, strs, c, at) ==
  IF Done(c, at) THEN c
  ELSE RdProps(buf, strs, RdProp(buf, strs, c), at)

RdPropList(buf, strs, c) == Gather(RdProps(buf, strs, c, Len(c.v)), Len(c.v))

\* if (hasConstraint) constraint = decodeRTTITypeRef(...), hasConstraint
\* being the newest value; none is what the constraint is otherwise
RdConstraint(buf, strs, c, none) ==
  IF Top(c) # 0 THEN RdTypeRef(buf, strs, c) ELSE Put(c, none)

MkGeneric(c) == Fold(c, 3, [name |-> Below(c, 2), constraint |-> Top(c)])

\* one generic parameter: name index, presence byte, TypeRef when present
RdGeneric(buf, strs, c) ==
  MkGeneric(RdConstraint(buf, strs, RdByte(buf, RdString(buf, strs, c)),
                         NoRef))

RECURSIVE RdGenerics(_, _, _, _)
RdGenerics(buf, strs, c, at) ==
  IF Done(c, at) THEN c
  ELSE RdGenerics(buf, strs, RdGeneric(buf, strs, c), at)

RdGenericList(buf, strs, c) ==
  Gather(RdGenerics(buf, strs, c, Len(c.v)), Len(c.v))

RECURSIVE RdBases(_, _, _, _)
RdBases(buf, strs, c, at) ==
  IF Done(c, at) THEN c
  ELSE RdBases(buf, strs, RdString(buf, strs, c), at)

RdBaseList(buf, strs, c) == Gather(RdBases(buf, strs, c, Len(c.v)), Len(c.v))

MkClass(kind, c) ==
  Fold(c, 4, [kind |-> kind, props |-> Below(c, 3),
              generics |-> Below(c, 2), decorators |-> Below(c, 1),
              bases |-> Top(c)])

\* case REF_CLASS, REF_OBJECT
DecodeClass(buf, strs, kind, c) ==
  MkClass(kind,
    RdBaseList(buf, strs, RdVarint(buf,
      RdTypeDecorators(buf, strs,
        RdGenericList(buf, strs, RdVarint(buf,
          RdPropList(buf, strs, RdVarint(buf, c))))))))

\* one parameter of a function: name, TypeRef, annotations
RdFunctionParam(buf, strs, c) ==
  MkParam(RdFunctionParamDecorators(buf, strs,
            RdTypeRef(buf, strs, RdString(buf, strs, c))))

RECURSIVE RdFunctionParams(_, _, _, _)
RdFunctionParams(buf, strs, c, at) ==
  IF Done(c, at) THEN c
  ELSE RdFunctionParams(buf, strs, RdFunctionParam(buf, strs, c), at)

RdFunctionParamList(buf, strs, c) ==
  Gather(RdFunctionParams(buf, strs, c, Len(c.v)), Len(c.v))

MkFunction(kind, c) ==
  Fold(c, 4, [kind |-> kind, params |-> Below(c, 3),
              returnType |-> Below(c, 2), generics |-> Below(c, 1),
              decorators |-> Top(c)])

\* case REF_FUNCTION
DecodeFunction(buf, strs, kind, c) ==
  MkFunction(kind,
    RdFunctionDecorators(buf, strs,
      RdGenericList(buf, strs, RdVarint(buf,
        RdTypeRef(buf, strs,
          RdFunctionParamList(buf, strs, RdVarint(buf, c)))))))

\* buf[o+1] | buf[o+2] << 8 | buf[o+3] << 16 | buf[o+4] << 24 as an int32
Int32At(buf, o) ==
  ByteAt(buf, o + 1) + 256 * ByteAt(buf, o + 2) + 65536 * ByteAt(buf, o + 3)
  + 16777216 * (IF ByteAt(buf, o + 4) >= 128 THEN ByteAt(buf, o + 4) - 256
                ELSE ByteAt(buf, o + 4))

\* new TextDecoder().decode(buf.slice(offset, offset + strLen));
\* offset += strLen, strLen being the newest value
RdText(buf, c) ==
  [off |-> c.off + Top(c), oob |-> c.oob,
   v |-> Append(SubSeq(c.v, 1, Len(c.v) - 1),
                [str |-> Utf8Decode(subarray(buf, c.off, c.off + Top(c)))])]

\* the value of one enum member: 0xFF then four bytes, or a length-prefixed
\* string
RdEnumValue(buf, c) ==
  IF c.off < Len(buf) /\ ByteAt(buf, c.off) = 255
    THEN [off |-> c.off + 5, oob |-> c.oob \/ c.off + 4 >= Len(buf),
          v |-> Append(c.v, [num |-> Int32At(buf, c.off)])]
    ELSE RdText(buf, RdVarint(buf, c))

MkEnumMember(c) == Fold(c, 2, [name |-> Below(c, 1), value |-> Top(c)])

RdEnumMember(buf, strs, c) ==
  MkEnumMember(RdEnumValue(buf, RdString(buf, strs, c)))

RECURSIVE RdEnumMembers(_, _, _, _)
RdEnumMembers(buf, strs, c, at) ==
  IF Done(c, at) THEN c
  ELSE RdEnumMembers(buf, strs, RdEnumMember(buf, strs, c), at)

RdEnumMemberList(buf, strs, c) ==
  Gather(RdEnumMembers(buf, strs, c, Len(c.v)), Len(c.v))

MkMembers(kind, c) == Fold(c, 1, [kind |-> kind, members |-> Top(c)])

\* case REF_ENUM
DecodeEnum(buf, strs, kind, c) ==
  MkMembers(kind, RdEnumMemberList(buf, strs, RdVarint(buf, c)))

RECURSIVE RdTypeRefs(_, _, _, _)
RdTypeRefs(buf, strs, c, at) ==
  IF Done(c, at) THEN c
  ELSE RdTypeRefs(buf, strs, RdTypeRef(buf, strs, c), at)

RdTypeRefList(buf, strs, c) ==
  Gather(RdTypeRefs(buf, strs, c, Len(c.v)), Len(c.v))

\* case REF_UNION, REF_INTERSECTION
DecodeUnion(buf, strs, kind, c) ==
  MkMembers(kind, RdTypeRefList(buf, strs, RdVarint(buf, c)))

MkMapped(kind, c) ==
  Fold(c, 4, [kind |-> kind, keyName |-> Below(c, 3),
              keyConstraint |-> Below(c, 1), valueType |-> Top(c)])

\* case REF_MAPPED: key name index, presence byte, key constraint when
\* present, value type
DecodeMapped(buf, strs, kind, c) ==
  MkMapped(kind,
    RdTypeRef(buf, strs,
      RdConstraint(buf, strs, RdByte(buf, RdString(buf, strs, c)), NullRef)))

MkConditional(kind, c) ==
  Fold(c, 4, [kind |-> kind, checkType |-> Below(c, 3),
              extendsType |-> Below(c, 2), trueType |-> Below(c, 1),
              falseType |-> Top(c)])

\* case REF_CONDITIONAL
DecodeConditional(buf, strs, kind, c) ==
  MkConditional(kind,
    RdTypeRef(buf, strs, RdTypeRef(buf, strs,
      RdTypeRef(buf, strs, RdTypeRef(buf, strs, c)))))

MkGenericRef(kind, c) ==
  Fold(c, 2, [kind |-> kind, base |-> Below(c, 1), args |-> Top(c)])

\* case REF_GENERIC
DecodeGeneric(buf, strs, kind, c) ==
  MkGenericRef(kind,
    RdTypeRefList(buf, strs, RdVarint(buf, RdString(buf, strs, c))))

\* case REF_PRIMITIVE
DecodePrimitive(buf, c) ==
  [off |-> c.off, oob |-> c.oob \/ decodeVarint(buf, c.off).oob,
   v |-> <<[kind |-> REF_PRIMITIVE, type |-> decodeVarint(buf, c.off).value]>>]

\* const kind = buf[offset++]; offset = decodeVarint(buf, offset).next
SkipName(buf, d) ==
  [off |-> d.next, oob |-> Len(buf) = 0 \/ d.oob, v |-> <<>>]

\* the switch on kind
DecodeBody(buf, strs, kind, c) ==
  CASE kind = REF_PRIMITIVE -> DecodePrimitive(buf, c)
    [] kind \in {REF_CLASS, REF_OBJECT} -> DecodeClass(buf, strs, kind, c)
    [] kind = REF_FUNCTION -> DecodeFunction(buf, strs, kind, c)
    [] kind = REF_ENUM -> DecodeEnum(buf, strs, kind, c)
    [] kind \in {REF_UNION, REF_INTERSECTION} -> DecodeUnion(buf, strs, kind, c)
    [] kind = REF_MAPPED -> DecodeMapped(buf, strs, kind, c)
    [] kind = REF_CONDITIONAL -> DecodeConditional(buf, strs, kind, c)
    [] kind = REF_GENERIC -> DecodeGeneric(buf, strs, kind, c)
    [] OTHER -> Put(c, [kind |-> kind])

\* what decodeRTTIEntry hands back: no path of the function throws, so the
\* outcome is always a record
Returned(c) == [outcome |-> "record", result |-> Top(c), oob |-> c.oob]

\* decodeRTTIEntry(buf, getString).  The kind of an empty buffer is
\* undefined, written -1.
decodeRTTIEntry(buf, strs) ==
  Returned(DecodeBody(buf, strs, IF Len(buf) > 0 THEN buf[1] ELSE -1,
                      SkipName(buf, decodeVarint(buf, 1))))

\* ------------------------------------------------------------------------
\* The records the front end hands to the serializer
\* ------------------------------------------------------------------------

\* PrimitiveTypes are the TypeFlags of the TypeScript compiler
PrimUnknown == 2
PrimString == 4
PrimNumber == 8

Prim(t) == [kind |-> "primitive", type |-> t]
Ref(name) == [kind |-> "ref", fqName |-> name]
Deco(name, args) == [name |-> name, args |-> args]

\* a string of n letters "a"
Letters(n) == [i \in 1..n |-> 97]

\* class A<T extends B, U> implements B { readonly x: number; m(p: B): string }
ClassA ==
  [fqName |-> <<65>>, kind |-> REF_CLASS, did |-> 1,
   data |->
     [props |-> <<
        [name |-> <<120>>, type |-> Prim(PrimNumber), flags |-> 2,
         decorators |-> <<>>, kind |-> "property"],
        [name |-> <<109>>, type |-> Prim(PrimString), flags |-> 0,
         decorators |-> <<Deco(<<100>>, <<<<97>>>>), Deco(<<101>>, <<>>)>>,
         kind |-> "method",
         parameters |-> <<[name |-> <<112>>, type |-> Ref(<<66>>),
                           decorators |-> <<Deco(<<100>>, <<>>)>>]>>,
         overloads |-> <<
            [params |-> <<[name |-> <<112>>, type |-> Prim(PrimNumber), decorators |-> <<>>]>>,
             returnType |-> Prim(PrimString), decorators |-> <<>>],
            [params |-> <<[name |-> <<112>>, type |-> Prim(PrimString), decorators |-> <<>>]>>,
             returnType |-> Prim(PrimString), decorators |-> <<Deco(<<100>>, <<>>)>>]>>,
         implementation |->
            [params |-> <<[name |-> <<112>>, type |-> Ref(<<85>>), decorators |-> <<>>]>>,
             returnType |-> Prim(PrimString), decorators |-> <<>>]]>>,
      generics |-> <<[name |-> <<84>>, constraint |-> Ref(<<66>>)],
                     [name |-> <<85>>, constraint |-> NoRef]>>,
      decorators |-> <<Deco(<<99>>, <<<<97>>, <<120>>>>)>>,
      bases |-> <<<<66>>>>]]

\* interface B {}
ObjectB ==
  [fqName |-> <<66>>, kind |-> REF_OBJECT, did |-> 2,
   data |-> [props |-> <<>>, generics |-> <<>>, decorators |-> <<>>,
             bases |-> <<>>]]

\* @c @d("a") class D extends B {}
ClassD ==
  [fqName |-> <<68>>, kind |-> REF_CLASS, did |-> 3,
   data |-> [props |-> <<>>, generics |-> <<>>,
             decorators |-> <<Deco(<<99>>, <<>>), Deco(<<100>>, <<<<97>>>>)>>,
             bases |-> <<<<66>>>>]]

\* function f<T>(@d("a") p: A): string   (extractFunctionMetadata sets no
\* decorators field)
FunctionF ==
  [fqName |-> <<102>>, kind |-> REF_FUNCTION, did |-> 4,
   data |-> [params |-> <<[name |-> <<112>>, type |-> Ref(<<65>>),
                           decorators |-> <<Deco(<<100>>, <<<<97>>>>)>>]>>,
             returnType |-> Prim(PrimString),
             generics |-> <<[name |-> <<84>>, constraint |-> NoRef]>>]]

\* numeric values at the ends of the int32 range, and short strings; the last
\* member is named "\u00e9" and has the value "\u00e9a"
EnumE ==
  [fqName |-> <<69>>, kind |-> REF_ENUM, did |-> 5,
   data |-> [members |-> <<
      [name |-> <<97>>, value |-> [num |-> 0]],
      [name |-> <<120>>, value |-> [num |-> -1]],
      [name |-> <<112>>, value |-> [num |-> (0 - Half31) - Half31]],
      [name |-> <<109>>, value |-> [num |-> (Half31 - 1) + Half31]],
      [name |-> <<100>>, value |-> [num |-> 255]],
      [name |-> <<75>>, value |-> [str |-> <<>>]],
      [name |-> <<84>>, value |-> [str |-> <<97>>]],
      [name |-> <<233>>, value |-> [str |-> <<233, 97>>]]>>]]

\* string values whose length needs one and two varint bytes
EnumL ==
  [fqName |-> <<76>>, kind |-> REF_ENUM, did |-> 6,
   data |-> [members |-> <<
      [name |-> <<97>>, value |-> [str |-> Letters(127)]],
      [name |-> <<120>>, value |-> [str |-> Letters(128)]]>>]]

\* a string value of 255 bytes
EnumS ==
  [fqName |-> <<83>>, kind |-> REF_ENUM, did |-> 7,
   data |-> [members |-> <<[name |-> <<97>>, value |-> [str |-> Letters(255)]]>>]]

\* type U = number | A
UnionU ==
  [fqName |-> <<85>>, kind |-> REF_UNION, did |-> 8,
   data |-> [members |-> <<Prim(PrimNumber), Ref(<<65>>)>>]]

\* type V = U registered by main as a copy {...realMeta, fqName} that shares
\* the data of U
AliasV == [UnionU EXCEPT !.fqName = <<86>>]

\* type I = A & B
IntersectionI ==
  [fqName |-> <<73>>, kind |-> REF_INTERSECTION, did |-> 9,
   data |-> [members |-> <<Ref(<<65>>), Ref(<<66>>)>>]]

\* type M = { [K in U]: number }
MappedM ==
  [fqName |-> <<77>>, kind |-> REF_MAPPED, did |-> 10,
   data |-> [keyName |-> <<75>>, keyConstraint |-> Ref(<<85>>),
             valueType |-> Prim(PrimNumber)]]

\* a mapped record without key constraint
MappedN ==
  [fqName |-> <<78>>, kind |-> REF_MAPPED, did |-> 11,
   data |-> [keyName |-> <<75>>, keyConstraint |-> NullRef,
             valueType |-> Ref(<<65>>)]]

\* type C<T> = T extends string ? A : unknown
ConditionalC ==
  [fqName |-> <<67>>, kind |-> REF_CONDITIONAL, did |-> 12,
   data |-> [checkType |-> Ref(<<84>>), extendsType |-> Prim(PrimString),
             trueType |-> Ref(<<65>>), falseType |-> Prim(PrimUnknown)]]

\* type P = number
PrimitiveP ==
  [fqName |-> <<80>>, kind |-> REF_PRIMITIVE, did |-> 13, data |-> PrimNumber]

\* number[] registered by extractTypeRTTI as a generic alias
GenericG ==
  [fqName |-> <<71>>, kind |-> REF_GENERIC, did |-> 14,
   data |-> [base |-> <<65, 114, 114, 97, 121>>, args |-> <<Prim(PrimNumber)>>]]

\* type liquid = string and type costarring = number: fnv1aHash of the two
\* names is 0x5e4daa9d
PrimitiveLiquid ==
  [fqName |-> <<108, 105, 113, 117, 105, 100>>, kind |-> REF_PRIMITIVE,
   did |-> 15, data |-> PrimString]

PrimitiveCostarring ==
  [fqName |-> <<99, 111, 115, 116, 97, 114, 114, 105, 110, 103>>,
   kind |-> REF_PRIMITIVE, did |-> 16, data |-> PrimNumber]

\* enum T { a, b } and the same declaration after a member was added
EnumT ==
  [fqName |-> <<84>>, kind |-> REF_ENUM, did |-> 17,
   data |-> [members |-> <<[name |-> <<97>>, value |-> [num |-> 0]],
                           [name |-> <<98>>, value |-> [num |-> 1]]>>]]

EnumTChanged ==
  [fqName |-> <<84>>, kind |-> REF_ENUM, did |-> 18,
   data |-> [members |-> <<[name |-> <<97>>, value |-> [num |-> 0]],
                           [name |-> <<98>>, value |-> [num |-> 1]],
                           [name |-> <<99>>, value |-> [num |-> 2]]>>]]

\* enum H { a = 1e999 }: Number(initializer.text) is Infinity
EnumH ==
  [fqName |-> <<72>>, kind |-> REF_ENUM, did |-> 19,
   data |-> [members |-> <<[name |-> <<97>>, value |-> [inf |-> TRUE]]>>]]

\* The records addType is called with.  The registry (rttiMap) is keyed by
\* fqName, so no two records of a build share a name.
\* interface J<T> extends B { x: number }
ObjectJ ==
  [fqName |-> <<74>>, kind |-> REF_OBJECT, did |-> 20,
   data |-> [props |-> <<[name |-> <<120>>, type |-> Prim(PrimNumber),
                          flags |-> 0, decorators |-> <<>>,
                          kind |-> "property"]>>,
             generics |-> <<[name |-> <<84>>, constraint |-> NoRef]>>,
             decorators |-> <<>>,
             bases |-> <<<<66>>>>]]

Universe ==
  <<ClassA, ObjectB, ClassD, FunctionF, EnumE, EnumL, EnumS, UnionU, AliasV,
    IntersectionI, MappedM, MappedN, ConditionalC, PrimitiveP, GenericG,
    PrimitiveLiquid, PrimitiveCostarring, ObjectJ>>

\* ------------------------------------------------------------------------
\* Bounds
\* ------------------------------------------------------------------------

\* addType calls of one build
MaxTypes == 2
\* addType calls before a buffer is handed to the decoder directly
MaxCodecTypes == 1
\* load calls on one MetadataStore
MaxLoads == 2
\* size of the string table driven through StringTable.add alone
MaxStrings == 3
\* writeFile calls on metadata.bin by builds of the same program
MaxWrites == 2
\* runs of main over one metadata.cache
MaxBuilds == 2
\* extractTypeRTTI calls on unions and intersections in one source file
MaxSites == 3
\* members of a class or interface declaration
MaxMembers == 3
\* flags values handed to the flag decoders
MaxFlags == 127
\* numbers 0..MaxSmallVarint are all handed to encodeVarint
MaxSmallVarint == 150
\* the largest power of two whose neighbours are handed to encodeVarint
MaxVarintBits == 30
\* nested calls of extractTypeRTTI the engine's call stack holds; the call
\* after that throws RangeError
MaxStack == 6
\* calls of Hydrator.init
MaxInits == 3

\* ------------------------------------------------------------------------
\* serializer.ts: addType, buildBinarySections; compiler main: the container
\* ------------------------------------------------------------------------

\* an index entry whose offset is taken after the heap offset has advanced
NewIndexEntryAfterAdvance(hash, stringOffset, currentOffset, heapBuffer) ==
  [hash |-> hash, stringOffset |-> stringOffset,
   dataOffset |-> currentOffset + Len(heapBuffer),
   dataLength |-> Len(heapBuffer)]

\* the index entry addType pushes
NewIndexEntry(hash, stringOffset, currentOffset, heapBuffer) ==
  [hash |-> hash, stringOffset |-> stringOffset,
   dataOffset |-> currentOffset, dataLength |-> Len(heapBuffer)]

\* entries().map(([str]) => encode(str + "\0")), concatenated
RECURSIVE BuildStringTable(_)
BuildStringTable(keys) ==
  IF keys = <<>> THEN <<>>
  ELSE Utf8Encode(JsToString(Head(keys)) \o <<0>>) \o BuildStringTable(Tail(keys))

\* an index entry written with dataLength at 12 and dataOffset at 16
IndexEntryBytesSwapped(entry) ==
  entry.hash \o Zeros(4) \o U32LE(entry.stringOffset)
  \o U32LE(entry.dataLength) \o U32LE(entry.dataOffset) \o Zeros(4)

\* one 24-byte index entry: hash at 0, stringOffset at 8, dataOffset at 12,
\* dataLength at 16, the rest zero
IndexEntryBytes(entry) ==
  entry.hash \o Zeros(4) \o U32LE(entry.stringOffset)
  \o U32LE(entry.dataOffset) \o U32LE(entry.dataLength) \o Zeros(4)

RECURSIVE BuildIndex(_)
BuildIndex(idx) ==
  IF idx = <<>> THEN <<>>
  ELSE IndexEntryBytes(Head(idx)) \o BuildIndex(Tail(idx))

buildBinarySections(tab, idx, bufs) ==
  [stringTableBuffer |-> BuildStringTable(entries(tab)),
   indexBuffer |-> BuildIndex(idx),
   heapBuffer |-> concatUint8Arrays(bufs)]

\* lz4.compress / lz4.decompress of the lz4js package: a frame (magic
\* number, content size) around the block, and its inverse; decompress of
\* anything else throws (Undefined)
lz4compress(bytes) == <<4, 34, 77, 24>> \o U32LE(Len(bytes)) \o bytes
lz4decompress(bytes) ==
  IF Len(bytes) >= 8 /\ SubSeq(bytes, 1, 4) = <<4, 34, 77, 24>>
     /\ SubSeq(bytes, 5, 8) = U32LE(Len(bytes) - 8)
    THEN SubSeq(bytes, 9, Len(bytes))
    ELSE Undefined

\* the 32-byte header main writes
BuildHeader(stringTableLength, indexLength, compressedHeapLength) ==
  META_MAGIC_LE \o U16LE(PROTOCOL_VERSION) \o U16LE(FEATURE_BITMAP)
  \o U32LE(stringTableLength) \o U32LE(indexLength)
  \o U32LE(compressedHeapLength) \o Zeros(12)

\* Buffer.concat([header, stringTable, index, compressedHeap])
BuildContainer(tab, idx, bufs) ==
  LET sections == buildBinarySections(tab, idx, bufs)
      compressedHeapBuffer == lz4compress(sections.heapBuffer)
  IN  BuildHeader(Len(sections.stringTableBuffer), Len(sections.indexBuffer),
                  Len(compressedHeapBuffer))
      \o sections.stringTableBuffer \o sections.indexBuffer
      \o compressedHeapBuffer

\* ------------------------------------------------------------------------
\* MetadataStore
\* ------------------------------------------------------------------------

\* Buffer.indexOf(0, pos), -1 when there is none
IndexOfZero(buf, pos) ==
  IF \E i \in pos..(Len(buf) - 1) : buf[i + 1] = 0
    THEN CHOOSE i \in pos..(Len(buf) - 1) :
           buf[i + 1] = 0 /\ \A j \in pos..(i - 1) : buf[j + 1] # 0
    ELSE -1

\* the while loop of load that splits the string table section
RECURSIVE ParseStringTable(_, _, _)
ParseStringTable(buf, pos, acc) ==
  IF pos >= Len(buf) THEN acc
  ELSE LET found == IndexOfZero(buf, pos)
           end == IF found = -1 THEN Len(buf) ELSE found
       IN  ParseStringTable(buf, end + 1,
                            Append(acc, Utf8Decode(subarray(buf, pos, end))))

\* the for loop of load over the index section
RECURSIVE ParseIndex(_, _, _)
ParseIndex(buf, i, acc) ==
  IF i >= Len(buf) THEN acc
  ELSE ParseIndex(buf, i + INDEX_ENTRY_SIZE,
         Append(acc, [hash |-> subarray(buf, i, i + 4),
                      stringOffset |-> readUInt32LE(buf, i + 8),
                      dataOffset |-> readUInt32LE(buf, i + 12),
                      dataLength |-> readUInt32LE(buf, i + 16)]))

ParseHeader(buf) ==
  [magic |-> subarray(buf, 0, 4),
   version |-> readUInt16LE(buf, 4),
   bitmap |-> readUInt16LE(buf, 6),
   stringTableSize |-> readUInt32LE(buf, 8),
   indexTableSize |-> readUInt32LE(buf, 12),
   heapSize |-> readUInt32LE(buf, 16)]

\* the three sections load slices out of the file
FileSections(buf) ==
  LET h == ParseHeader(buf)
      o1 == HEADER_SIZE + h.stringTableSize
      o2 == o1 + h.indexTableSize
  IN  [stringTableBuf |-> subarray(buf, HEADER_SIZE, o1),
       indexBuf |-> subarray(buf, o1, o2),
       compressedHeap |-> subarray(buf, o2, o2 + h.heapSize)]

\* Array.indexOf(x): position of the first element equal to x, -1 if none
IndexOf(seq, x) ==
  IF \E i \in 1..Len(seq) : seq[i] = x
    THEN (CHOOSE i \in 1..Len(seq) :
            seq[i] = x /\ \A j \in 1..(i - 1) : seq[j] # x) - 1
    ELSE -1

\* the undefined a lookup returns when it finds no entry
NoEntry == [found |-> FALSE]

\* getEntryByName(name): strings.indexOf(name), then index.find by
\* stringOffset
getEntryByName(strs, idx, name) ==
  LET i == IndexOf(strs, name)
      e == IndexOf([k \in 1..Len(idx) |-> idx[k].stringOffset], i)
  IN  IF i = -1 \/ e = -1 THEN NoEntry ELSE idx[e + 1]

\* getEntryByHash(hash): index.find by hash
getEntryByHash(idx, hash) ==
  LET e == IndexOf([k \in 1..Len(idx) |-> idx[k].hash], hash)
  IN  IF e = -1 THEN NoEntry ELSE idx[e + 1]

\* getMetadataBuffer(entry)
getMetadataBuffer(hp, entry) ==
  subarray(hp, entry.dataOffset, entry.dataOffset + entry.dataLength)

\* ------------------------------------------------------------------------
\* compiler main: the incremental build and metadata.cache
\* ------------------------------------------------------------------------

\* a Map or an object with string keys: pairs <<key, value>> in insertion
\* order; set replaces the value of a key in place or appends
MapSet(m, key, val) ==
  IF MapHas(m, key)
    THEN [i \in 1..Len(m) |-> IF m[i][1] = key THEN <<key, val>> ELSE m[i]]
    ELSE Append(m, <<key, val>>)

MapKeys(m) == {m[i][1] : i \in 1..Len(m)}
MapValues(m) == [i \in 1..Len(m) |-> m[i][2]]

\* JSON.parse(JSON.stringify(value)) of an enum value: JSON has no Infinity
\* and writes null
JsonNumber(value) == IF "inf" \in DOMAIN value THEN [null |-> TRUE] ELSE value

\* JSON.parse(JSON.stringify(meta.data)).  A property whose value is
\* undefined is left out, which the records of the model express by NoRef or
\* by the absence of the field already.
JsonData(meta) ==
  IF meta.kind = REF_ENUM
    THEN [members |->
            [i \in 1..Len(meta.data.members) |->
               [name |-> meta.data.members[i].name,
                value |-> JsonNumber(meta.data.members[i].value)]]]
    ELSE meta.data

\* the identity of the object graph JSON.parse makes of a record
ParsedId(did) == 100 + (did % 100)

\* JSON.parse(JSON.stringify(meta)): a new object graph
JsonCopy(meta) ==
  [fqName |-> meta.fqName, kind |-> meta.kind, did |-> ParsedId(meta.did),
   data |-> JsonData(meta)]

\* hashType(meta): the SHA-1 of JSON.stringify(meta), taken to be free of
\* collisions, so that it stands for the JSON text, and the text for the
\* value it parses to
hashType(meta) ==
  [fqName |-> meta.fqName, kind |-> meta.kind, data |-> JsonData(meta)]

\* metadata.cache does not exist
NoCache == [exists |-> FALSE]

\* { version: PROTOCOL_VERSION, files: {}, types: {} }
EmptyCache == [version |-> PROTOCOL_VERSION, files |-> <<>>, types |-> <<>>]

\* the cache test without the comparison with PROTOCOL_VERSION
loadCacheAnyVersion(cf) ==
  LET parsed == IF cf = NoCache THEN EmptyCache ELSE cf
  IN  IF "version" \notin DOMAIN parsed \/ parsed.version = 0
        THEN EmptyCache ELSE parsed

\* main: the cache read from metadata.cache, replaced by an empty one when
\* its version is missing, 0 or not PROTOCOL_VERSION
loadCache(cf) ==
  LET parsed == IF cf = NoCache THEN EmptyCache ELSE cf
  IN  IF ("version" \notin DOMAIN parsed \/ parsed.version = 0)
         \/ parsed.version # PROTOCOL_VERSION
        THEN EmptyCache ELSE parsed

\* the cache compare that registers the fresh record on a hit as well
compareCacheFresh(st, meta) ==
  [cache |-> [st.cache EXCEPT !.types =
                MapSet(@, meta.fqName, [fqName |-> meta.fqName,
                                        hash |-> hashType(meta),
                                        meta |-> meta])],
   rttiMap |-> MapSet(st.rttiMap, meta.fqName, meta),
   typeHashes |-> MapSet(st.typeHashes, meta.fqName, hashType(meta))]

\* main, if (meta): compare the hash of the record with the cached one; st
\* holds cache, rttiMap and typeHashes
compareCache(st, meta) ==
  LET fqName == meta.fqName
      typeHash == hashType(meta)
      cachedType == MapGet(st.cache.types, fqName)
  IN  IF MapHas(st.cache.types, fqName) /\ cachedType.hash = typeHash
        THEN [cache |-> st.cache,
              rttiMap |-> MapSet(st.rttiMap, fqName, cachedType.meta),
              typeHashes |-> MapSet(st.typeHashes, fqName, typeHash)]
        ELSE [cache |-> [st.cache EXCEPT !.types =
                           MapSet(@, fqName, [fqName |-> fqName,
                                              hash |-> typeHash,
                                              meta |-> meta])],
              rttiMap |-> MapSet(st.rttiMap, fqName, meta),
              typeHashes |-> MapSet(st.typeHashes, fqName, typeHash)]

\* the loop over the keys of cache.types left out
pruneTypesNone(types, registry) == types

\* main: delete cache.types[fqName] for the names that are not in usedTypes
pruneTypes(types, registry) ==
  SelectSeq(types, LAMBDA entry : entry[1] \in MapKeys(registry))

\* JSON.stringify(cache, null, 2) as JSON.parse reads it back
JsonCache(c) ==
  [version |-> c.version,
   files |-> [i \in 1..Len(c.files) |->
                <<c.files[i][1],
                  [typeHashes |-> c.files[i][2].typeHashes,
                   types |-> [j \in 1..Len(c.files[i][2].types) |->
                                JsonCopy(c.files[i][2].types[j])]]>>],
   types |-> [i \in 1..Len(c.types) |->
                <<c.types[i][1],
                  [fqName |-> c.types[i][2].fqName,
                   hash |-> c.types[i][2].hash,
                   meta |-> JsonCopy(c.types[i][2].meta)]>>]]

\* new RTTISerializer()
NewSerializer ==
  [stringTable |-> EmptyStringTable, index |-> <<>>, heapBuffers |-> <<>>,
   currentHeapOffset |-> 0]

\* addType on a serializer value, st being the encoder state
\* serializeMetadata(meta) ends in
AddTypeWith(ser, fqName, stringOffset, st) ==
  [stringTable |-> st.tab,
   index |-> Append(ser.index,
               NewIndexEntry(fnv1aHash(fqName), stringOffset,
                             ser.currentHeapOffset, st.out)),
   heapBuffers |-> Append(ser.heapBuffers, st.out),
   currentHeapOffset |-> ser.currentHeapOffset + Len(st.out)]

addType(ser, meta) ==
  AddTypeWith(ser, meta.fqName, AddIndex(ser.stringTable, meta.fqName),
              SerializeState(AddTable(ser.stringTable, meta.fqName), meta))

\* listTypes(): the strings at an index some entry has as its stringOffset
listTypes(strs, idx) ==
  LET named(i) == \E e \in 1..Len(idx) : idx[e].stringOffset = i - 1
      picked == {i \in 1..Len(strs) : named(i)}
      nth(n) == CHOOSE i \in picked : Cardinality({j \in picked : j < i}) = n - 1
  IN  [n \in 1..Cardinality(picked) |-> strs[nth(n)]]

\* ------------------------------------------------------------------------
\* State
\* ------------------------------------------------------------------------

VARIABLES
  stringTable,        \* RTTISerializer.stringTable
  index,              \* RTTISerializer.index
  heapBuffers,        \* RTTISerializer.heapBuffers
  currentHeapOffset,  \* RTTISerializer.currentHeapOffset
  file,               \* the bytes of metadata.bin, NoFile before it is written
  header,             \* MetadataStore.header
  strings,            \* MetadataStore.strings
  storeIndex,         \* MetadataStore.index
  heap,               \* MetadataStore.heap
  loads,              \* number of completed load calls on the store
  loadLog,            \* per load call: the header it read and how it ended
  decoded,            \* outcome of the last decode
  log,                \* per addType call: the record and the encoder's logs
  lastAdd,            \* the last direct StringTable.add call and its result
  firstAdd,           \* per string: the index its first add returned
  writer,             \* main's writeFile of metadata.bin while it is under way
  pc,                 \* where main is: "idle", "scan", "serialize"
  program,            \* the source files of the build under way
  cursor,             \* <<source file, node>> main visits next
  cache,              \* main's cache
  rttiMap,            \* main's rttiMap
  typeHashes,         \* main's typeHashes of the source file under way
  cacheFile,          \* metadata.cache as JSON.parse reads it, or NoCache
  buildLog,           \* per finished build: what it read and what it wrote
  sites,              \* per extractTypeRTTI call on a union or intersection
  methods,            \* the last extractMethodGroups call and its result
  flagView,           \* the last flags value decoded and what the decoders returned
  introspected,       \* the last Introspector call and its result
  varint,             \* the last number encoded and what decodeVarint read back
  extraction,         \* extractTypeRTTI on a reference type, call by call
  hydrator            \* Hydrator.store, the init calls made and the last call

vars == <<stringTable, index, heapBuffers, currentHeapOffset, file, header,
          strings, storeIndex, heap, loads, loadLog, decoded, log, lastAdd,
          firstAdd, writer, pc, program, cursor, cache, rttiMap, typeHashes,
          cacheFile, buildLog, sites, methods, flagView,
          introspected, varint, extraction, hydrator>>

serVars == <<stringTable, index, heapBuffers, currentHeapOffset, log>>
storeVars == <<header, strings, storeIndex, heap, loads, loadLog>>
internVars == <<lastAdd, firstAdd>>
buildVars == <<pc, program, cursor, cache, rttiMap, typeHashes, cacheFile,
               buildLog>>
libVars == <<methods, flagView, introspected, varint, extraction, hydrator>>
toolVars == <<sites, libVars>>
mainVars == <<writer, buildVars, toolVars>>

NoFile == <<-1>>

Init ==
  /\ stringTable = EmptyStringTable
  /\ index = <<>>
  /\ heapBuffers = <<>>
  /\ currentHeapOffset = 0
  /\ file = NoFile
  /\ header = [loaded |-> FALSE]
  /\ strings = <<>>
  /\ storeIndex = <<>>
  /\ heap = <<>>
  /\ loads = 0
  /\ loadLog = <<>>
  /\ decoded = [called |-> FALSE]
  /\ log = <<>>
  /\ lastAdd = [called |-> FALSE]
  /\ firstAdd = <<>>
  /\ writer = [out |-> NoFile, count |-> 0]
  /\ pc = "idle"
  /\ program = <<>>
  /\ cursor = <<1, 1>>
  /\ cache = EmptyCache
  /\ rttiMap = <<>>
  /\ typeHashes = <<>>
  /\ cacheFile = NoCache
  /\ buildLog = <<>>
  /\ sites = <<>>
  /\ methods = [called |-> FALSE]
  /\ flagView = [called |-> FALSE]
  /\ introspected = [called |-> FALSE]
  /\ varint = [called |-> FALSE]
  /\ extraction = [pc |-> "idle", stack |-> <<>>, rttiMap |-> {}, expanded |-> <<>>]
  /\ hydrator = [store |-> [set |-> FALSE], inits |-> 0, last |-> [op |-> "none"]]

\* the strings handed to StringTable.add directly: "A", "B", "x", "" , "ab"
InternStrings == {<<65>>, <<66>>, <<120>>, <<>>, <<97, 98>>}

\* stringTable.add(str)
StringTableAdd(str) ==
  /\ MapHas(stringTable.strings, str) \/ Len(stringTable.reverse) < MaxStrings
  /\ stringTable' = AddTable(stringTable, str)
  /\ lastAdd' = [called |-> TRUE, str |-> str,
                 idx |-> AddIndex(stringTable, str),
                 sizeBefore |-> Len(stringTable.reverse),
                 presentBefore |-> MapHas(stringTable.strings, str),
                 offsetBefore |-> getOffset(stringTable, str)]
  /\ firstAdd' = IF MapHas(firstAdd, str) THEN firstAdd
                 ELSE Append(firstAdd, <<str, AddIndex(stringTable, str)>>)
  /\ UNCHANGED <<index, heapBuffers, currentHeapOffset, log, file, decoded>>
  /\ UNCHANGED storeVars
  /\ UNCHANGED mainVars

\* serializer.addType(meta), at most max calls
AddType(k, max) ==
  LET meta == Universe[k]
      stringOffset == AddIndex(stringTable, meta.fqName)
      hash == fnv1aHash(meta.fqName)
      st == SerializeState(AddTable(stringTable, meta.fqName), meta)
  IN  /\ Len(index) < max
      /\ file = NoFile
      /\ stringTable' = st.tab
      /\ index' = Append(index,
                    NewIndexEntry(hash, stringOffset, currentHeapOffset, st.out))
      /\ heapBuffers' = Append(heapBuffers, st.out)
      /\ currentHeapOffset' = currentHeapOffset + Len(st.out)
      /\ log' = Append(log, [k |-> k, refs |-> st.refs, decos |-> st.decos])
      /\ UNCHANGED <<file, decoded>>
      /\ UNCHANGED storeVars
      /\ UNCHANGED internVars
      /\ UNCHANGED mainVars

\* main: buildBinarySections, compress the heap, write header and sections
\* to metadata.bin
WriteContainer ==
  /\ file = NoFile
  /\ file' = BuildContainer(stringTable, index, heapBuffers)
  /\ UNCHANGED <<decoded>>
  /\ UNCHANGED serVars
  /\ UNCHANGED storeVars
  /\ UNCHANGED internVars
  /\ UNCHANGED mainVars

\* store.load(filePath).  readUInt32LE throws when the file ends before the
\* bytes it reads, and then nothing is assigned; otherwise the header is
\* assigned first, and when decompress throws nothing else is assigned
Load ==
  LET short == Len(file) < 20
      sec == FileSections(file)
      newHeap == IF short THEN Undefined
                 ELSE lz4decompress(sec.compressedHeap)
  IN  /\ file # NoFile
      /\ Len(loadLog) < MaxLoads
      /\ header' = IF short THEN header ELSE ParseHeader(file)
      /\ loadLog' = Append(loadLog,
                      [read |-> file,
                       header |-> IF short THEN [loaded |-> FALSE]
                                  ELSE ParseHeader(file),
                       result |-> IF newHeap = Undefined THEN "rejected"
                                  ELSE "resolved"])
      /\ IF newHeap = Undefined
           THEN UNCHANGED <<heap, strings, storeIndex, loads>>
           ELSE /\ heap' = newHeap
                /\ strings' = ParseStringTable(sec.stringTableBuf, 0, strings)
                /\ storeIndex' = ParseIndex(sec.indexBuf, 0, storeIndex)
                /\ loads' = loads + 1
      /\ UNCHANGED <<file, decoded>>
      /\ UNCHANGED serVars
      /\ UNCHANGED internVars
      /\ UNCHANGED mainVars

\* fs.promises.writeFile(metadata.bin, out) opens the file with flag "w",
\* which truncates it, before it writes a byte
BeginWrite ==
  /\ writer.out = NoFile
  /\ writer.count < MaxWrites
  /\ writer' = [out |-> BuildContainer(stringTable, index, heapBuffers),
                count |-> writer.count + 1]
  /\ file' = <<>>
  /\ UNCHANGED <<decoded>>
  /\ UNCHANGED serVars
  /\ UNCHANGED storeVars
  /\ UNCHANGED internVars
  /\ UNCHANGED buildVars
  /\ UNCHANGED toolVars

\* the lengths the file may have after one of writeFile's write calls: a
\* write call may end anywhere; the model takes the middle of the header,
\* the end of the header, the end of the index section and the end
ChunkEnds(out) ==
  IF out = NoFile THEN {}
  ELSE {HEADER_SIZE \div 2, HEADER_SIZE,
        HEADER_SIZE + readUInt32LE(out, 8) + readUInt32LE(out, 12), Len(out)}

\* one write call of writeFile leaves the first n bytes in the file; the
\* file is closed after the last byte
WriteChunk(n) ==
  /\ writer.out # NoFile
  /\ n > Len(file)
  /\ file' = SubSeq(writer.out, 1, n)
  /\ writer' = IF n = Len(writer.out) THEN [writer EXCEPT !.out = NoFile]
               ELSE writer
  /\ UNCHANGED <<decoded>>
  /\ UNCHANGED serVars
  /\ UNCHANGED storeVars
  /\ UNCHANGED internVars
  /\ UNCHANGED buildVars
  /\ UNCHANGED toolVars

\* magic fields a file at filePath may carry: META, and "RIFF"
FileMagics == {META_MAGIC_LE, <<82, 73, 70, 70>>}
\* version fields: the reader's, and the next one
FileVersions == {PROTOCOL_VERSION, PROTOCOL_VERSION + 1}

\* the file load is pointed at carries another magic or version field: the
\* container of a writer built with another PROTOCOL_VERSION, or a file
\* that is no container
ReplaceHeader(magic, version) ==
  /\ file # NoFile
  /\ file' = magic \o U16LE(version) \o subarray(file, 6, Len(file))
  /\ file' # file
  /\ UNCHANGED <<decoded>>
  /\ UNCHANGED serVars
  /\ UNCHANGED storeVars
  /\ UNCHANGED internVars
  /\ UNCHANGED mainVars

\* the names asked of the store: the names of the records added, and "Z"
QueryNames == {Universe[log[e].k].fqName : e \in 1..Len(log)} \cup {<<90>>}

\* store.getDecodedEntryByName(name)
GetDecodedEntryByName(name) ==
  LET entry == getEntryByName(strings, storeIndex, name)
      buf == getMetadataBuffer(heap, entry)
      d == decodeRTTIEntry(buf, strings)
  IN  /\ loads > 0
      /\ decoded' = IF entry = NoEntry
                      THEN [called |-> TRUE, found |-> FALSE, name |-> name]
                      ELSE [called |-> TRUE, found |-> TRUE, name |-> name,
                            input |-> "stored", buf |-> buf,
                            outcome |-> d.outcome, result |-> d.result,
                            oob |-> d.oob]
      /\ UNCHANGED <<file>>
      /\ UNCHANGED serVars
      /\ UNCHANGED storeVars
      /\ UNCHANGED internVars
      /\ UNCHANGED mainVars

\* decodeRTTIEntry on a proper prefix of a stored record, once in a run
DecodeTruncated(e, cut) ==
  LET buf == subarray(getMetadataBuffer(heap, storeIndex[e]), 0, cut)
      d == decodeRTTIEntry(buf, strings)
  IN  /\ loads > 0
      /\ ~decoded.called
      /\ cut < storeIndex[e].dataLength
      /\ decoded' = [called |-> TRUE, found |-> TRUE,
                     name |-> GetString(strings, storeIndex[e].stringOffset),
                     input |-> "truncated", buf |-> buf,
                     outcome |-> d.outcome, result |-> d.result, oob |-> d.oob]
      /\ UNCHANGED <<file>>
      /\ UNCHANGED serVars
      /\ UNCHANGED storeVars
      /\ UNCHANGED internVars
      /\ UNCHANGED mainVars

\* the input of the query before this one, "none" for the first
Previous == IF decoded.called /\ decoded.found THEN decoded.input ELSE "none"

\* store.getEntryByHash(fnv1aHash(name))
GetEntryByHash(name) ==
  LET entry == getEntryByHash(storeIndex, fnv1aHash(name))
  IN  /\ loads > 0
      /\ decoded' = [called |-> TRUE, found |-> entry # NoEntry, name |-> name,
                     input |-> "hash", result |-> entry, after |-> Previous]
      /\ UNCHANGED <<file>>
      /\ UNCHANGED serVars
      /\ UNCHANGED storeVars
      /\ UNCHANGED internVars
      /\ UNCHANGED mainVars

\* store.getMetadataBuffer(entry) of the entry getEntryByName(name) returns
GetMetadataBuffer(name) ==
  LET entry == getEntryByName(strings, storeIndex, name)
  IN  /\ loads > 0
      /\ entry # NoEntry
      /\ decoded' = [called |-> TRUE, found |-> TRUE, name |-> name,
                     input |-> "buffer",
                     result |-> getMetadataBuffer(heap, entry),
                     after |-> Previous]
      /\ UNCHANGED <<file>>
      /\ UNCHANGED serVars
      /\ UNCHANGED storeVars
      /\ UNCHANGED internVars
      /\ UNCHANGED mainVars

\* listTypes with this.strings assigned the filtered array
ListTypesInPlace ==
  /\ loads > 0
  /\ decoded' = [called |-> TRUE, found |-> TRUE, name |-> <<>>,
                 input |-> "list", result |-> listTypes(strings, storeIndex),
                 after |-> Previous]
  /\ strings' = listTypes(strings, storeIndex)
  /\ UNCHANGED <<file, header, storeIndex, heap, loads, loadLog>>
  /\ UNCHANGED serVars
  /\ UNCHANGED internVars
  /\ UNCHANGED mainVars

\* store.listTypes()
ListTypes ==
  /\ loads > 0
  /\ decoded' = [called |-> TRUE, found |-> TRUE, name |-> <<>>,
                 input |-> "list", result |-> listTypes(strings, storeIndex),
                 after |-> Previous]
  /\ UNCHANGED <<file>>
  /\ UNCHANGED serVars
  /\ UNCHANGED storeVars
  /\ UNCHANGED internVars
  /\ UNCHANGED mainVars

\* kind bytes no case of the decoder's switch handles
UnknownKinds == {0, 13, 255}

\* decodeRTTIEntry on a stored record whose kind byte is not a known kind,
\* once in a run
DecodeUnknownKind(e, kind) ==
  LET rec == getMetadataBuffer(heap, storeIndex[e])
      buf == <<kind>> \o Tail(rec)
      d == decodeRTTIEntry(buf, strings)
  IN  /\ loads > 0
      /\ ~decoded.called
      /\ decoded' = [called |-> TRUE, found |-> TRUE,
                     name |-> GetString(strings, storeIndex[e].stringOffset),
                     input |-> "unknown kind", buf |-> buf,
                     outcome |-> d.outcome, result |-> d.result, oob |-> d.oob]
      /\ UNCHANGED <<file>>
      /\ UNCHANGED serVars
      /\ UNCHANGED storeVars
      /\ UNCHANGED internVars
      /\ UNCHANGED mainVars

\* a declaration of a class, an interface, a function or an enum, for
\* which main sets meta, and a type alias, for which it does not
Decl(meta) == [meta |-> meta, declared |-> TRUE]
Alias(meta) == [meta |-> meta, declared |-> FALSE]

\* the programs main is run on: two source files; one declaration changed;
\* one source file removed; an enum with the value Infinity
Programs ==
  {<<[fileName |-> "a.ts", nodes |-> <<Decl(FunctionF), Decl(EnumT)>>],
     [fileName |-> "b.ts", nodes |-> <<Decl(EnumE), Alias(PrimitiveP)>>]>>,
   <<[fileName |-> "a.ts", nodes |-> <<Decl(FunctionF), Decl(EnumTChanged)>>],
     [fileName |-> "b.ts", nodes |-> <<Decl(EnumE), Alias(PrimitiveP)>>]>>,
   <<[fileName |-> "a.ts", nodes |-> <<Decl(FunctionF), Decl(EnumT)>>]>>,
   <<[fileName |-> "c.ts", nodes |-> <<Decl(EnumH)>>]>>}

\* a record no program declares, as an older build left it in the cache
StaleMeta ==
  [fqName |-> <<90>>, kind |-> REF_ENUM, did |-> 120,
   data |-> [members |-> <<>>]]

\* the cache of an older build: a record for T that its hash does not
\* belong to, a record no program declares, and a source file no program has
OldCache(version) ==
  [version |-> version,
   files |-> << <<"z.ts", [typeHashes |-> << <<StaleMeta.fqName,
                                              hashType(StaleMeta)>> >>,
                           types |-> <<StaleMeta>>]>> >>,
   types |-> << <<EnumT.fqName,
                  [fqName |-> EnumT.fqName, hash |-> hashType(EnumT),
                   meta |-> JsonCopy(EnumTChanged)]>>,
                <<StaleMeta.fqName,
                  [fqName |-> StaleMeta.fqName, hash |-> hashType(StaleMeta),
                   meta |-> StaleMeta]>> >>]

\* the metadata.cache files main may find before its first run: of this
\* protocol version, of the next, of version 0, and without a version
OldCaches ==
  {OldCache(PROTOCOL_VERSION), OldCache(PROTOCOL_VERSION + 1), OldCache(0),
   [files |-> OldCache(0).files, types |-> OldCache(0).types]}

\* metadata.cache is there before the first build
FindCache(c) ==
  /\ pc = "idle"
  /\ buildLog = <<>>
  /\ cacheFile = NoCache
  /\ cacheFile' = c
  /\ UNCHANGED <<pc, program, cursor, cache, rttiMap, typeHashes, buildLog>>
  /\ UNCHANGED <<file, decoded, writer>>
  /\ UNCHANGED serVars
  /\ UNCHANGED storeVars
  /\ UNCHANGED internVars
  /\ UNCHANGED toolVars

\* main, up to the loop over the source files, run on the program p
StartBuild(p) ==
  /\ pc = "idle"
  /\ Len(buildLog) < MaxBuilds
  /\ cache' = loadCache(cacheFile)
  /\ program' = p
  /\ cursor' = <<1, 1>>
  /\ rttiMap' = <<>>
  /\ typeHashes' = <<>>
  /\ pc' = "scan"
  /\ UNCHANGED <<cacheFile, buildLog>>
  /\ UNCHANGED <<file, decoded, writer>>
  /\ UNCHANGED serVars
  /\ UNCHANGED storeVars
  /\ UNCHANGED internVars
  /\ UNCHANGED toolVars

\* the callback of ts.forEachChild on one node: the record is registered,
\* and compared with the cache when the node is a declaration
VisitNode ==
  LET node == program[cursor[1]].nodes[cursor[2]]
      st == [cache |-> cache,
             rttiMap |-> MapSet(rttiMap, node.meta.fqName, node.meta),
             typeHashes |-> typeHashes]
      after == IF node.declared THEN compareCache(st, node.meta) ELSE st
  IN  /\ pc = "scan"
      /\ cursor[1] <= Len(program)
      /\ cursor[2] <= Len(program[cursor[1]].nodes)
      /\ cache' = after.cache
      /\ rttiMap' = after.rttiMap
      /\ typeHashes' = after.typeHashes
      /\ cursor' = <<cursor[1], cursor[2] + 1>>
      /\ UNCHANGED <<pc, program, cacheFile, buildLog>>
      /\ UNCHANGED <<file, decoded, writer>>
      /\ UNCHANGED serVars
      /\ UNCHANGED storeVars
      /\ UNCHANGED internVars
      /\ UNCHANGED toolVars

\* after the nodes of a source file: its entry of cache.files is assigned
EndFile ==
  /\ pc = "scan"
  /\ cursor[1] <= Len(program)
  /\ cursor[2] > Len(program[cursor[1]].nodes)
  /\ cache' = [cache EXCEPT !.files =
                 MapSet(@, program[cursor[1]].fileName,
                        [typeHashes |-> typeHashes,
                         types |-> MapValues(rttiMap)])]
  /\ typeHashes' = <<>>
  /\ cursor' = <<cursor[1] + 1, 1>>
  /\ UNCHANGED <<pc, program, rttiMap, cacheFile, buildLog>>
  /\ UNCHANGED <<file, decoded, writer>>
  /\ UNCHANGED serVars
  /\ UNCHANGED storeVars
  /\ UNCHANGED internVars
  /\ UNCHANGED toolVars

\* after the last source file: the names that are not registered are
\* deleted from cache.types, and the serializer is made
Prune ==
  /\ pc = "scan"
  /\ cursor[1] > Len(program)
  /\ cache' = [cache EXCEPT !.types = pruneTypes(@, rttiMap)]
  /\ stringTable' = NewSerializer.stringTable
  /\ index' = NewSerializer.index
  /\ heapBuffers' = NewSerializer.heapBuffers
  /\ currentHeapOffset' = NewSerializer.currentHeapOffset
  /\ pc' = "serialize"
  /\ cursor' = <<cursor[1], 1>>
  /\ UNCHANGED <<program, rttiMap, typeHashes, cacheFile, buildLog>>
  /\ UNCHANGED <<log, file, decoded, writer>>
  /\ UNCHANGED storeVars
  /\ UNCHANGED internVars
  /\ UNCHANGED toolVars

\* one turn of for (const meta of allTypes) serializer.addType(meta)
SerializeNext ==
  LET after == addType([stringTable |-> stringTable, index |-> index,
                        heapBuffers |-> heapBuffers,
                        currentHeapOffset |-> currentHeapOffset],
                       MapValues(rttiMap)[cursor[2]])
  IN  /\ pc = "serialize"
      /\ cursor[2] <= Len(rttiMap)
      /\ stringTable' = after.stringTable
      /\ index' = after.index
      /\ heapBuffers' = after.heapBuffers
      /\ currentHeapOffset' = after.currentHeapOffset
      /\ cursor' = <<cursor[1], cursor[2] + 1>>
      /\ UNCHANGED <<pc, program, cache, rttiMap, typeHashes, cacheFile,
                     buildLog>>
      /\ UNCHANGED <<log, file, decoded, writer>>
      /\ UNCHANGED storeVars
      /\ UNCHANGED internVars
      /\ UNCHANGED toolVars

\* the rest of main: metadata.bin and metadata.cache are written
Emit ==
  /\ pc = "serialize"
  /\ cursor[2] > Len(rttiMap)
  /\ file' = BuildContainer(stringTable, index, heapBuffers)
  /\ cache' = [cache EXCEPT !.version = PROTOCOL_VERSION]
  /\ cacheFile' = JsonCache(cache')
  /\ buildLog' = Append(buildLog,
                    [program |-> program, found |-> cacheFile,
                     registered |-> rttiMap, out |-> file'])
  /\ pc' = "idle"
  /\ UNCHANGED <<program, cursor, rttiMap, typeHashes>>
  /\ UNCHANGED <<decoded, writer>>
  /\ UNCHANGED serVars
  /\ UNCHANGED storeVars
  /\ UNCHANGED internVars
  /\ UNCHANGED toolVars

\* ------------------------------------------------------------------------
\* extractTypeRTTI (src/tools/extractor.ts) and the declarations of main
\* that call it
\* ------------------------------------------------------------------------

\* String(n) of a number n >= 0: its decimal digits
RECURSIVE NumberToString(_)
NumberToString(n) ==
  IF n < 10 THEN <<48 + n>>
  ELSE Append(NumberToString(n \div 10), 48 + (n % 10))

rttiTypeRefToString(ref) ==
  IF ref.kind = "primitive" THEN NumberToString(ref.type) ELSE ref.fqName

\* refs.map((ref) => rttiTypeRefToString(ref)).join(sep), from element i on
RECURSIVE JoinRefs(_, _, _)
JoinRefs(refs, sep, i) ==
  IF i > Len(refs) THEN <<>>
  ELSE (IF i = 1 THEN <<>> ELSE sep)
         \o rttiTypeRefToString(refs[i]) \o JoinRefs(refs, sep, i + 1)

\* a ts.Type as the type checker hands it to extractTypeRTTI.  aliasSymbol
\* is NoSymbol for a type written in place, and the symbol of the alias for
\* the type an alias declares.
NoSymbol == <<>>
TsPrimitive(prim) == [flags |-> "primitive", prim |-> prim]
TsUnion(types, aliasSymbol) ==
  [flags |-> "union", types |-> types, aliasSymbol |-> aliasSymbol]
TsIntersection(types, aliasSymbol) ==
  [flags |-> "intersection", types |-> types, aliasSymbol |-> aliasSymbol]
TsArray(elem) == [flags |-> "array", typeArguments |-> <<elem>>]
TsReference(symbol, properties) ==
  [flags |-> "reference", symbol |-> symbol, properties |-> properties]

\* the identity of the record an extractTypeRTTI call creates
NewId(map) == 200 + Len(map)

\* what an extractTypeRTTI call returns and leaves behind
Extracted(ref, map, seen) == [ref |-> ref, rttiMap |-> map, sites |-> seen]

\* the context of the next call after the call that returned r
After(ctx, r) == [ctx EXCEPT !.rttiMap = r.rttiMap, !.sites = r.sites]

\* union or intersection, after its members: named, registered once
RegisterComposite(type, ctx, r) ==
  LET fqNameRoot ==
        ctx.fqPrefix
          \o (IF type.flags = "union" THEN <<117, 110, 105, 111, 110>>
                                      ELSE <<105, 110, 116, 101, 114>>)
          \o <<95>> \o JoinRefs(r.refs, <<95>>, 1)
      fqName == IF type.aliasSymbol # NoSymbol THEN type.aliasSymbol
                                               ELSE fqNameRoot
      meta == [fqName |-> fqName,
               kind |-> IF type.flags = "union" THEN REF_UNION
                                                ELSE REF_INTERSECTION,
               did |-> NewId(r.rttiMap),
               data |-> [members |-> r.refs]]
  IN  Extracted(Ref(fqName),
                IF MapHas(r.rttiMap, fqName) THEN r.rttiMap
                ELSE MapSet(r.rttiMap, fqName, meta),
                Append(r.sites, [type |-> type, fqPrefix |-> ctx.fqPrefix,
                                 ref |-> Ref(fqName),
                                 kind |-> meta.kind, members |-> r.refs]))

\* array, after its element
RegisterArray(ctx, r) ==
  LET fqName == ctx.fqPrefix \o <<65, 114, 114, 97, 121, 60>>
                  \o rttiTypeRefToString(r.ref) \o <<62>>
      meta == [fqName |-> fqName, kind |-> REF_GENERIC,
               did |-> NewId(r.rttiMap),
               data |-> [base |-> <<65, 114, 114, 97, 121>>,
                         args |-> <<r.ref>>]]
  IN  Extracted(Ref(fqName),
                IF MapHas(r.rttiMap, fqName) THEN r.rttiMap
                ELSE MapSet(r.rttiMap, fqName, meta),
                r.sites)

\* class, interface or object reference, after its properties
RegisterObject(fqName, r) ==
  Extracted(Ref(fqName),
            MapSet(r.rttiMap, fqName,
                   [fqName |-> fqName, kind |-> REF_OBJECT,
                    did |-> NewId(r.rttiMap),
                    data |-> [props |-> r.refs, generics |-> <<>>,
                              decorators |-> <<>>, bases |-> <<>>]]),
            r.sites)

RECURSIVE extractTypeRTTI(_, _)
RECURSIVE extractTypes(_, _, _, _)
RECURSIVE extractProps(_, _, _, _, _)

\* the property of a referenced type, after the call on its type
PushProp(prop, r, props) ==
  Append(props, [name |-> prop.name, type |-> r.ref, flags |-> 0,
                 decorators |-> <<>>])

ExtractTypesStep(types, ctx, i, refs, r) ==
  extractTypes(types, After(ctx, r), i + 1, Append(refs, r.ref))

\* type.types.map((t) => extractTypeRTTI(t, ctx)), from element i on
extractTypes(types, ctx, i, refs) ==
  IF i > Len(types)
    THEN [refs |-> refs, rttiMap |-> ctx.rttiMap, sites |-> ctx.sites]
    ELSE ExtractTypesStep(types, ctx, i, refs, extractTypeRTTI(types[i], ctx))

ExtractPropsStep(properties, ctx, fqName, i, props, r) ==
  extractProps(properties, After(ctx, r), fqName, i + 1,
               PushProp(properties[i], r, props))

\* the loop over type.getProperties(), from property i on
extractProps(properties, ctx, fqName, i, props) ==
  IF i > Len(properties)
    THEN [refs |-> props, rttiMap |-> ctx.rttiMap, sites |-> ctx.sites]
    ELSE ExtractPropsStep(properties, ctx, fqName, i, props,
           extractTypeRTTI(properties[i].type,
             [ctx EXCEPT !.fqPrefix = fqName \o <<46>> \o properties[i].name]))

\* extractTypeRTTI(type, context); context is rttiMap, fqPrefix and the
\* calls on unions and intersections made so far
extractTypeRTTI(type, ctx) ==
  CASE type.flags = "primitive" ->
         Extracted(Prim(type.prim), ctx.rttiMap, ctx.sites)
    [] type.flags \in {"union", "intersection"} ->
         RegisterComposite(type, ctx,
           extractTypes(type.types, [ctx EXCEPT !.fqPrefix = @ \o <<95>>],
                        1, <<>>))
    [] type.flags = "array" ->
         RegisterArray(ctx,
           extractTypeRTTI(type.typeArguments[1],
             [ctx EXCEPT !.fqPrefix = @ \o <<95, 97, 114, 114, 97, 121>>]))
    [] type.flags = "reference" ->
         IF MapHas(ctx.rttiMap, type.symbol)
           THEN Extracted(Ref(type.symbol), ctx.rttiMap, ctx.sites)
           ELSE RegisterObject(type.symbol,
                  extractProps(type.properties, ctx, type.symbol, 1, <<>>))
    [] OTHER -> Extracted(Prim(PrimUnknown), ctx.rttiMap, ctx.sites)

\* main's context: fqPrefix is ""
Context(map, seen) == [rttiMap |-> map, fqPrefix |-> <<>>, sites |-> seen]

\* the types of the declarations: string, string | number written in place,
\* string | number as the alias AB declares it, (string | number)[],
\* Box<string> of interface Box<T> { p: string | number; q: string | number }
\* and Box<string> & Pt written in place
TsString == TsPrimitive(PrimString)
TsNumber == TsPrimitive(PrimNumber)
UnionInline == TsUnion(<<TsString, TsNumber>>, NoSymbol)
UnionAliased == TsUnion(<<TsString, TsNumber>>, <<65, 66>>)
ArrayOfUnion == TsArray(UnionInline)
BoxOfString ==
  TsReference(<<66, 111, 120>>, <<[name |-> <<112>>, type |-> UnionInline],
                                  [name |-> <<113>>, type |-> UnionInline]>>)
IntersectionInline ==
  TsIntersection(<<BoxOfString, TsReference(<<80, 116>>, <<>>)>>, NoSymbol)

ExtractTypes ==
  {TsString, UnionInline, UnionAliased, ArrayOfUnion, BoxOfString,
   IntersectionInline}

\* function f(x: P): R for the types P and R
FunctionDeclarations ==
  {[name |-> <<102>>, parameters |-> <<[name |-> <<120>>, type |-> p]>>,
    type |-> r] : p \in ExtractTypes, r \in ExtractTypes}

\* type AB = string | number; type N = string; type L = (string | number)[]
TypeAliasDeclarations ==
  {[name |-> <<65, 66>>, type |-> UnionAliased],
   [name |-> <<78>>, type |-> TsString],
   [name |-> <<76>>, type |-> ArrayOfUnion]}

\* extractFunctionMetadata, after the call on the first parameter's type (p)
\* and the call on the return type (r)
FunctionMetadata(node, p, r) ==
  [fqName |-> node.name, kind |-> REF_FUNCTION, did |-> NewId(r.rttiMap),
   data |-> [params |-> <<[name |-> node.parameters[1].name, type |-> p.ref,
                           decorators |-> <<>>]>>,
             returnType |-> r.ref,
             generics |-> <<>>]]

\* the callback of ts.forEachChild, after extractFunctionMetadata: the record
\* is registered and compared with the cache
RegisterFunction(meta, r) ==
  [sites |-> r.sites,
   st |-> compareCache([cache |-> cache,
                        rttiMap |-> MapSet(r.rttiMap, meta.fqName, meta),
                        typeHashes |-> typeHashes], meta)]

ExtractFunction(node, p, r) ==
  RegisterFunction(FunctionMetadata(node, p, r), r)

ExtractReturnType(node, p) ==
  ExtractFunction(node, p,
                  extractTypeRTTI(node.type, Context(p.rttiMap, p.sites)))

\* the callback of ts.forEachChild on a function declaration
VisitFunctionDeclaration(node) ==
  LET after == ExtractReturnType(node,
                 extractTypeRTTI(node.parameters[1].type,
                                 Context(rttiMap, sites)))
  IN  /\ Len(sites) < MaxSites
      /\ sites' = after.sites
      /\ cache' = after.st.cache
      /\ rttiMap' = after.st.rttiMap
      /\ typeHashes' = after.st.typeHashes
      /\ UNCHANGED <<pc, program, cursor, cacheFile, buildLog>>
      /\ UNCHANGED <<file, decoded, writer>>
      /\ UNCHANGED serVars
      /\ UNCHANGED storeVars
      /\ UNCHANGED internVars
      /\ UNCHANGED libVars

\* main's type alias branch, after the call on the aliased type
RegisterAlias(fqName, r) ==
  IF r.ref.kind = "ref"
    THEN IF MapHas(r.rttiMap, r.ref.fqName) /\ fqName # r.ref.fqName
           THEN MapSet(r.rttiMap, fqName,
                       [MapGet(r.rttiMap, r.ref.fqName)
                          EXCEPT !.fqName = fqName])
           ELSE r.rttiMap
    ELSE MapSet(r.rttiMap, fqName,
                [fqName |-> fqName, kind |-> REF_PRIMITIVE,
                 did |-> NewId(r.rttiMap), data |-> r.ref.type])

\* the callback of ts.forEachChild on a type alias declaration: no meta, so
\* nothing of the cache is touched
VisitTypeAliasDeclaration(node) ==
  LET r == extractTypeRTTI(node.type, Context(rttiMap, sites))
  IN  /\ Len(sites) < MaxSites
      /\ sites' = r.sites
      /\ rttiMap' = RegisterAlias(node.name, r)
      /\ UNCHANGED <<pc, program, cursor, cache, typeHashes, cacheFile,
                     buildLog>>
      /\ UNCHANGED <<file, decoded, writer>>
      /\ UNCHANGED serVars
      /\ UNCHANGED storeVars
      /\ UNCHANGED internVars
      /\ UNCHANGED libVars

\* the declarations of one source file, visited in any order
NextExtract ==
  \/ \E node \in FunctionDeclarations : VisitFunctionDeclaration(node)
  \/ \E node \in TypeAliasDeclarations : VisitTypeAliasDeclaration(node)

SpecExtract == Init /\ [][NextExtract]_vars

\* function AB(x: P): R next to type AB = ...: a function and a type alias
\* may have the same name
RegistryTypes == {TsString, UnionInline, UnionAliased}

RegistryDeclarations ==
  {[name |-> n, parameters |-> <<[name |-> <<120>>, type |-> p]>>,
    type |-> r] :
     n \in {<<65, 66>>}, p \in RegistryTypes, r \in RegistryTypes}

\* declarations of one source file some of which have the same name
NextRegistry ==
  \/ \E node \in RegistryDeclarations : VisitFunctionDeclaration(node)
  \/ \E node \in TypeAliasDeclarations : VisitTypeAliasDeclaration(node)

SpecRegistry == Init /\ [][NextRegistry]_vars

\* ------------------------------------------------------------------------
\* extractMethodGroups and extractNonMethodProps (part_005): the members of
\* a class or interface declaration
\* ------------------------------------------------------------------------

\* a | b for flags below 32
RECURSIVE OrBits(_, _, _)
OrBits(a, b, k) ==
  IF k > 4 THEN 0
  ELSE (IF ((a \div (2 ^ k)) % 2 = 1) \/ ((b \div (2 ^ k)) % 2 = 1)
          THEN 2 ^ k ELSE 0) + OrBits(a, b, k + 1)

\* the flags of a property or method from its modifiers: static 1 << 0,
\* readonly 1 << 1, optional 1 << 2, private 1 << 3, else protected 1 << 4
MemberFlags(member) ==
  OrBits(OrBits(OrBits(IF "static" \in member.modifiers THEN 1 ELSE 0,
                       IF "readonly" \in member.modifiers THEN 2 ELSE 0, 0),
                IF member.questionToken THEN 4 ELSE 0, 0),
         IF "private" \in member.modifiers THEN 8
         ELSE IF "protected" \in member.modifiers THEN 16 ELSE 0, 0)

\* member.parameters.map(...): the types of the members of the model are
\* primitive, which extractTypeRTTI returns without a change of the registry
MemberParameters(member, ctx) ==
  [i \in 1..Len(member.parameters) |->
     [name |-> member.parameters[i].name,
      type |-> extractTypeRTTI(member.parameters[i].type, ctx).ref,
      decorators |-> member.parameters[i].decorators]]

\* the overload signature of a method declaration or signature
MethodOverload(member, ctx) ==
  [params |-> MemberParameters(member, ctx),
   returnType |-> extractTypeRTTI(member.type, ctx).ref,
   decorators |-> member.decorators]

isMethod(member) ==
  /\ member.kind \in {"MethodDeclaration", "MethodSignature"}
  /\ member.identifier

\* the group of the method's name, made on the first declaration of the name
GroupOf(groups, member) ==
  IF MapHas(groups, member.name)
    THEN MapGet(groups, member.name)
    ELSE [flags |-> MemberFlags(member), decorators |-> <<>>,
          overloads |-> <<>>, implementation |-> <<>>]

\* one round of the loop over the members; implementation is <<>> while the
\* group has none
GroupMember(groups, member, ctx) ==
  IF ~isMethod(member) THEN groups
  ELSE MapSet(groups, member.name,
         [flags |-> OrBits(GroupOf(groups, member).flags,
                           MemberFlags(member), 0),
          decorators |-> GroupOf(groups, member).decorators
                           \o member.decorators,
          overloads |->
            IF member.kind = "MethodDeclaration" /\ member.body
              THEN GroupOf(groups, member).overloads
              ELSE Append(GroupOf(groups, member).overloads,
                          MethodOverload(member, ctx)),
          implementation |->
            IF member.kind = "MethodDeclaration" /\ member.body
              THEN <<MethodOverload(member, ctx)>>
              ELSE GroupOf(groups, member).implementation])

RECURSIVE methodGroups(_, _, _, _)
methodGroups(members, ctx, i, groups) ==
  IF i > Len(members) THEN groups
  ELSE methodGroups(members, ctx, i + 1,
                    GroupMember(groups, members[i], ctx))

\* rec with the field name when the value is not undefined
WithField(rec, has, name, val) == IF has THEN rec @@ (name :> val) ELSE rec

\* the entry pushed for one group
MethodProp(name, group) ==
  LET first == IF group.implementation # <<>> THEN group.implementation
               ELSE group.overloads
      base == [name |-> name, kind |-> "method",
               type |-> IF first # <<>> THEN first[1].returnType ELSE Prim(0),
               flags |-> group.flags, decorators |-> group.decorators]
  IN  WithField(
        WithField(
          WithField(base, group.overloads # <<>>, "overloads",
                    group.overloads),
          group.implementation # <<>>, "implementation",
          IF group.implementation # <<>> THEN group.implementation[1]
                                         ELSE <<>>),
        first # <<>>, "parameters",
        IF first # <<>> THEN first[1].params ELSE <<>>)

EmitGroups(groups) ==
  [k \in 1..Len(groups) |-> MethodProp(groups[k][1], groups[k][2])]

extractMethodGroups(members, ctx) ==
  EmitGroups(methodGroups(members, ctx, 1, <<>>))

\* members of a class: m(x: string): string; m(x: number): number;
\* m(x: string): string { } with a decorator; static m(): number { };
\* private n(): string { }; p?: number; ["k"](): string { }
Method(name, modifiers, parameters, type, body, decorators) ==
  [kind |-> "MethodDeclaration", name |-> name, identifier |-> TRUE,
   modifiers |-> modifiers, questionToken |-> FALSE,
   parameters |-> parameters, type |-> type, body |-> body,
   decorators |-> decorators]

Parameter(name, type) == [name |-> name, type |-> type, decorators |-> <<>>]

MemberDeclarations ==
  {Method(<<109>>, {}, <<Parameter(<<120>>, TsString)>>, TsString, FALSE,
          <<>>),
   Method(<<109>>, {}, <<Parameter(<<120>>, TsNumber)>>, TsNumber, FALSE,
          <<>>),
   Method(<<109>>, {}, <<Parameter(<<120>>, TsString)>>, TsString, TRUE,
          <<Deco(<<100>>, <<>>)>>),
   Method(<<109>>, {"static"}, <<>>, TsNumber, TRUE, <<>>),
   Method(<<110>>, {"private"}, <<>>, TsString, TRUE, <<>>),
   [kind |-> "PropertyDeclaration", name |-> <<112>>, identifier |-> TRUE,
    modifiers |-> {}, questionToken |-> TRUE, type |-> TsNumber,
    decorators |-> <<>>],
   [Method(<<107>>, {}, <<>>, TsString, TRUE, <<>>)
      EXCEPT !.identifier = FALSE]}

\* a class has one implementation of a method at most, and one of a static
\* method of the same name
OneImplementation(members) ==
  \A i \in 1..Len(members) : \A j \in 1..Len(members) :
    (/\ i < j
     /\ members[i].kind = "MethodDeclaration" /\ members[i].body
     /\ members[j].kind = "MethodDeclaration" /\ members[j].body
     /\ members[i].name = members[j].name)
      => ("static" \in members[i].modifiers)
           # ("static" \in members[j].modifiers)

MemberLists ==
  {members \in UNION {[1..n -> MemberDeclarations] : n \in 0..MaxMembers} :
     OneImplementation(members)}

\* extractMethodGroups(members, ...) on the members of a declaration
ExtractMethodGroups(members) ==
  /\ methods' = [called |-> TRUE, members |-> members,
                 props |-> extractMethodGroups(members,
                                               Context(rttiMap, sites))]
  /\ UNCHANGED <<file, decoded, writer, sites, flagView, introspected, varint, extraction, hydrator>>
  /\ UNCHANGED buildVars
  /\ UNCHANGED serVars
  /\ UNCHANGED storeVars
  /\ UNCHANGED internVars

NextMembers == \E members \in MemberLists : ExtractMethodGroups(members)

SpecMembers == Init /\ [][NextMembers]_vars

\* ------------------------------------------------------------------------
\* the flag decoders of Introspector (src/tools/introspect.ts)
\* ------------------------------------------------------------------------

\* visibility with the protected bit tested first
decodeVisibilityProtectedFirst(flags) ==
  IF Bit(flags, 4) THEN "protected"
  ELSE IF Bit(flags, 3) THEN "private" ELSE "public"

decodeVisibility(flags) ==
  IF Bit(flags, 3) THEN "private"
  ELSE IF Bit(flags, 4) THEN "protected" ELSE "public"

isStatic(flags) == Bit(flags, 0)
isReadonly(flags) == Bit(flags, 1)
isOptional(flags) == Bit(flags, 2)

\* what the four decoders return for a flags value
FlagView(flags) ==
  [visibility |-> decodeVisibility(flags), static |-> isStatic(flags),
   readonly |-> isReadonly(flags), optional |-> isOptional(flags)]

\* the decoders applied to a flags value read from a record
DecodeFlags(flags) ==
  /\ flagView' = [called |-> TRUE, source |-> "number", flags |-> flags,
                  modifiers |-> {}, questionToken |-> FALSE,
                  view |-> FlagView(flags)]
  /\ UNCHANGED <<file, decoded, writer, sites, methods, introspected, varint, extraction, hydrator>>
  /\ UNCHANGED buildVars
  /\ UNCHANGED serVars
  /\ UNCHANGED storeVars
  /\ UNCHANGED internVars

\* a property with the modifiers given
Property(modifiers, questionToken) ==
  [kind |-> "PropertyDeclaration", name |-> <<112>>, identifier |-> TRUE,
   modifiers |-> modifiers, questionToken |-> questionToken,
   type |-> TsNumber, decorators |-> <<>>]

Modifiers == {"static", "readonly", "private", "protected"}

\* the decoders applied to the flags extractNonMethodProps gives a property
DecodeMemberFlags(modifiers, questionToken) ==
  /\ flagView' = [called |-> TRUE, source |-> "member",
                  flags |-> MemberFlags(Property(modifiers, questionToken)),
                  modifiers |-> modifiers, questionToken |-> questionToken,
                  view |-> FlagView(
                             MemberFlags(Property(modifiers, questionToken)))]
  /\ UNCHANGED <<file, decoded, writer, sites, methods, introspected, varint, extraction, hydrator>>
  /\ UNCHANGED buildVars
  /\ UNCHANGED serVars
  /\ UNCHANGED storeVars
  /\ UNCHANGED internVars

NextFlags ==
  \/ \E flags \in 0..MaxFlags : DecodeFlags(flags)
  \/ \E modifiers \in SUBSET Modifiers : \E questionToken \in BOOLEAN :
       DecodeMemberFlags(modifiers, questionToken)

SpecFlags == Init /\ [][NextFlags]_vars

\* ------------------------------------------------------------------------
\* Introspector (src/tools/introspect.ts) and the decoder it imports
\* (part_009): both walk a heap record by offsets
\* ------------------------------------------------------------------------

\* offset = decodeVarint(buf, offset).next, n times
RECURSIVE SkipVarints(_, _, _)
SkipVarints(buf, offset, n) ==
  IF n <= 0 THEN offset
  ELSE SkipVarints(buf, decodeVarint(buf, offset).next, n - 1)

\* a list of annotations, each a name, a count and as many arguments, the
\* count varints read and passed: the offset after n annotations
RECURSIVE SkipDecorators(_, _, _)
SkipDecorators(buf, offset, n) ==
  IF n <= 0 THEN offset
  ELSE SkipDecorators(buf,
         SkipVarints(buf,
           decodeVarint(buf, decodeVarint(buf, offset).next).next,
           decodeVarint(buf, decodeVarint(buf, offset).next).value),
         n - 1)

\* a count and as many annotations
SkipDecoratorBlock(buf, offset) ==
  SkipDecorators(buf, decodeVarint(buf, offset).next,
                 decodeVarint(buf, offset).value)

\* n parameters, each a name, a type code and a block of annotations
RECURSIVE SkipParams(_, _, _)
SkipParams(buf, offset, n) ==
  IF n <= 0 THEN offset
  ELSE SkipParams(buf, SkipDecoratorBlock(buf, SkipVarints(buf, offset, 2)),
                  n - 1)

\* n members, each name, type code, flags, annotations, a count and as many
\* parameters
RECURSIVE SkipProps(_, _, _)
SkipProps(buf, offset, n) ==
  IF n <= 0 THEN offset
  ELSE SkipProps(buf,
         SkipParams(buf,
           decodeVarint(buf,
             SkipDecoratorBlock(buf, SkipVarints(buf, offset, 3))).next,
           decodeVarint(buf,
             SkipDecoratorBlock(buf, SkipVarints(buf, offset, 3))).value),
         n - 1)

\* n string indexes read and passed, each replaced by getString of it
RECURSIVE ReadStrings(_, _, _, _)
ReadStrings(buf, strs, offset, n) ==
  IF n <= 0 THEN <<>>
  ELSE <<GetString(strs, decodeVarint(buf, offset).value)>>
         \o ReadStrings(buf, strs, decodeVarint(buf, offset).next, n - 1)

\* a count and as many strings
ReadStringBlock(buf, strs, offset) ==
  ReadStrings(buf, strs, decodeVarint(buf, offset).next,
              decodeVarint(buf, offset).value)

\* the offset after a block of a count and as many varints
SkipBlock(buf, offset) ==
  SkipVarints(buf, decodeVarint(buf, offset).next,
              decodeVarint(buf, offset).value)

\* the offset of the generics block of a class or object record in the
\* decoder: after the kind, the name and the members
DecoderGenericsAt(buf) ==
  SkipProps(buf, decodeVarint(buf, decodeVarint(buf, 1).next).next,
            decodeVarint(buf, decodeVarint(buf, 1).next).value)

\* the offset of the generics block of a function record in the decoder:
\* after the kind, the name, the parameters and the return type
DecoderFunctionGenericsAt(buf) ==
  SkipVarints(buf,
    SkipParams(buf, decodeVarint(buf, decodeVarint(buf, 1).next).next,
               decodeVarint(buf, decodeVarint(buf, 1).next).value),
    1)

\* decodeRTTIEntry of part_009 on a class, object or function record: the
\* generics and, for a class or object, the bases it returns.  kind is -1
\* for an empty buffer.
DecoderEntry(buf, strs) ==
  LET kind == IF Len(buf) > 0 THEN buf[1] ELSE -1
  IN  IF kind \in {REF_CLASS, REF_OBJECT}
        THEN [kind |-> kind,
              generics |-> ReadStringBlock(buf, strs, DecoderGenericsAt(buf)),
              bases |-> ReadStringBlock(buf, strs,
                          SkipDecoratorBlock(buf,
                            SkipBlock(buf, DecoderGenericsAt(buf))))]
      ELSE IF kind = REF_FUNCTION
        THEN [kind |-> kind,
              generics |-> ReadStringBlock(buf, strs,
                                           DecoderFunctionGenericsAt(buf))]
      ELSE [kind |-> kind]

\* getGenerics: n annotations whose argument counts are read but not
\* passed, so that the first turn of the loop over the arguments passes the
\* count
RECURSIVE GenericsSkipDecorators(_, _, _)
GenericsSkipDecorators(buf, offset, n) ==
  IF n <= 0 THEN offset
  ELSE GenericsSkipDecorators(buf,
         SkipVarints(buf, decodeVarint(buf, offset).next,
                     decodeVarint(buf, decodeVarint(buf, offset).next).value),
         n - 1)

\* let decoCount = decodeVarint(buf, offset).value; for (d ...) { ... }
GenericsSkipDecoratorBlock(buf, offset) ==
  GenericsSkipDecorators(buf, offset, decodeVarint(buf, offset).value)

RECURSIVE GenericsSkipParams(_, _, _)
GenericsSkipParams(buf, offset, n) ==
  IF n <= 0 THEN offset
  ELSE GenericsSkipParams(buf,
         GenericsSkipDecoratorBlock(buf, SkipVarints(buf, offset, 2)),
         n - 1)

\* the loop over propCount in getGenerics
RECURSIVE GenericsSkipProps(_, _, _)
GenericsSkipProps(buf, offset, n) ==
  IF n <= 0 THEN offset
  ELSE GenericsSkipProps(buf,
         GenericsSkipParams(buf,
           GenericsSkipDecoratorBlock(buf, SkipVarints(buf, offset, 3)),
           decodeVarint(buf,
             GenericsSkipDecoratorBlock(buf,
               SkipVarints(buf, offset, 3))).value),
         n - 1)

\* the loop over paramCount in getGenerics for a function record
RECURSIVE GenericsSkipFunctionParams(_, _, _)
GenericsSkipFunctionParams(buf, offset, n) ==
  IF n <= 0 THEN offset
  ELSE GenericsSkipFunctionParams(buf,
         GenericsSkipDecoratorBlock(buf, SkipVarints(buf, offset, 2)),
         n - 1)

\* getGenerics on the buffer of an entry; Undefined for another kind
getGenerics(buf, strs) ==
  LET opCode == IF Len(buf) > 0 THEN buf[1] ELSE -1
      start == decodeVarint(buf, 1).next
      count == decodeVarint(buf, start)
  IN  IF opCode = REF_CLASS
        THEN ReadStringBlock(buf, strs,
               GenericsSkipProps(buf, count.next, count.value))
      ELSE IF opCode = REF_FUNCTION
        THEN ReadStringBlock(buf, strs,
               SkipVarints(buf,
                 GenericsSkipFunctionParams(buf, count.next, count.value),
                 1))
      ELSE Undefined

\* getBaseTypes on the buffer of an entry: the members, generics and
\* annotations are passed for REF_CLASS alone
getBaseTypes(buf, strs) ==
  LET opCode == IF Len(buf) > 0 THEN buf[1] ELSE -1
      start == decodeVarint(buf, 1).next
  IN  ReadStringBlock(buf, strs,
        IF opCode = REF_CLASS
          THEN SkipDecoratorBlock(buf,
                 SkipBlock(buf,
                   SkipProps(buf, decodeVarint(buf, start).next,
                             decodeVarint(buf, start).value)))
          ELSE start)

\* an Introspector method on the store: undefined when the store has no
\* entry of the name
Introspect(op, name, buf, result) ==
  /\ loads > 0
  /\ introspected' =
       IF getEntryByName(strings, storeIndex, name) = NoEntry
         THEN [called |-> TRUE, op |-> op, name |-> name, found |-> FALSE]
         ELSE [called |-> TRUE, op |-> op, name |-> name, found |-> TRUE,
               buf |-> buf, result |-> result]
  /\ UNCHANGED <<file, decoded, writer, sites, methods, flagView, varint, extraction, hydrator>>
  /\ UNCHANGED buildVars
  /\ UNCHANGED serVars
  /\ UNCHANGED storeVars
  /\ UNCHANGED internVars

StoredBuffer(name) ==
  getMetadataBuffer(heap, getEntryByName(strings, storeIndex, name))

\* introspect.getGenerics(typeName)
GetGenerics(name) ==
  Introspect("getGenerics", name, StoredBuffer(name),
             getGenerics(StoredBuffer(name), strings))

\* introspect.getBaseTypes(typeName)
GetBaseTypes(name) ==
  Introspect("getBaseTypes", name, StoredBuffer(name),
             getBaseTypes(StoredBuffer(name), strings))

\* a container is built and loaded, and the Introspector is asked
NextIntrospect ==
  \/ \E k \in 1..Len(Universe) : AddType(k, MaxCodecTypes)
  \/ WriteContainer
  \/ Load
  \/ \E name \in QueryNames : GetGenerics(name)
  \/ \E name \in QueryNames : GetBaseTypes(name)

SpecIntrospect == Init /\ [][NextIntrospect]_vars

\* ------------------------------------------------------------------------
\* protocol.ts: encodeVarint and decodeVarint on numbers below 2^31
\* ------------------------------------------------------------------------

\* 2^31 - 1
MaxVarint == (Half31 - 1) + Half31

\* the numbers encoded: the small ones, the neighbours of every power of
\* two (the lengths of the encoding change at 2^7, 2^14, 2^21, 2^28) and
\* the largest
VarintInputs ==
  (0..MaxSmallVarint)
    \cup {(2 ^ k) + d : k \in 1..MaxVarintBits, d \in {-1, 0, 1}}
    \cup {MaxVarint}

\* decodeVarint(encodeVarint(num), 0)
VarintRoundTrip(num) ==
  /\ varint' = [called |-> TRUE, num |-> num, buf |-> encodeVarint(num),
                value |-> decodeVarint(encodeVarint(num), 0).value,
                next |-> decodeVarint(encodeVarint(num), 0).next]
  /\ UNCHANGED <<file, decoded, writer, sites, methods, flagView,
                 introspected, extraction, hydrator>>
  /\ UNCHANGED <<buildVars, serVars, storeVars, internVars>>

NextVarint == \E num \in VarintInputs : VarintRoundTrip(num)

SpecVarint == Init /\ [][NextVarint]_vars

\* ------------------------------------------------------------------------
\* extractor.ts: extractTypeRTTI on reference types, one call at a time
\* ------------------------------------------------------------------------

\* the type checker's view of the declarations
\*   interface Leaf<T> { v: string }
\*   interface Pair<T> { a: Leaf<T>; b: Leaf<T> }
\*   interface Node<T> { value: string; next: Node<T> }
\*   interface Ping<T> { pong: Pong<T> }
\*   interface Pong<T> { ping: Ping<T> }
\* type.getProperties() of the reference type with symbol name s, each with
\* the type getTypeOfSymbolAtLocation gives: a primitive, or the symbol of
\* a reference type
SymbolNames == {"Leaf", "Pair", "Node", "Ping", "Pong"}

getProperties(symbol) ==
  CASE symbol = "Leaf" -> <<[name |-> "v", flags |-> "primitive"]>>
    [] symbol = "Pair" ->
         <<[name |-> "a", flags |-> "reference", symbol |-> "Leaf"],
           [name |-> "b", flags |-> "reference", symbol |-> "Leaf"]>>
    [] symbol = "Node" ->
         <<[name |-> "value", flags |-> "primitive"],
           [name |-> "next", flags |-> "reference", symbol |-> "Node"]>>
    [] symbol = "Ping" ->
         <<[name |-> "pong", flags |-> "reference", symbol |-> "Pong"]>>
    [] symbol = "Pong" ->
         <<[name |-> "ping", flags |-> "reference", symbol |-> "Ping"]>>

\* extractTypeRTTI is entered on the reference type fqName with the frames
\* in stack above it: if (!rttiMap.has(fqName)) the properties are walked,
\* otherwise { kind: "ref", fqName } is returned at once
EnterReference(ex, stack, fqName) ==
  IF fqName \in ex.rttiMap
    THEN [ex EXCEPT !.stack = stack,
                    !.pc = IF stack = <<>> THEN "returned" ELSE "running"]
    ELSE IF Len(stack) = MaxStack
           THEN [ex EXCEPT !.stack = <<>>, !.pc = "thrown"]
           ELSE [ex EXCEPT !.stack = Append(stack, [fqName |-> fqName, i |-> 1]),
                           !.expanded = Append(@, fqName),
                           !.pc = "running"]

\* the frame of the running call
TopFrame == extraction.stack[Len(extraction.stack)]

\* the frames with the loop of the running call moved to its next property
NextProperty ==
  [extraction.stack EXCEPT ![Len(extraction.stack)].i = @ + 1]

\* main calls extractTypeRTTI on a parameter, return or member type that
\* is a reference type
ExtractTypeRTTI(symbol) ==
  /\ extraction.pc \in {"idle", "returned"}
  /\ extraction' = EnterReference(extraction, <<>>, symbol)
  /\ UNCHANGED <<file, decoded, writer, sites, methods, flagView,
                 introspected, varint, hydrator>>
  /\ UNCHANGED <<buildVars, serVars, storeVars, internVars>>

\* one turn of for (const prop of type.getProperties()): the call on the
\* type of the property
ExtractProperty ==
  /\ extraction.pc = "running"
  /\ TopFrame.i <= Len(getProperties(TopFrame.fqName))
  /\ LET prop == getProperties(TopFrame.fqName)[TopFrame.i]
     IN  extraction' =
           IF prop.flags = "reference"
             THEN EnterReference(extraction, NextProperty, prop.symbol)
             ELSE [extraction EXCEPT !.stack = NextProperty]
  /\ UNCHANGED <<file, decoded, writer, sites, methods, flagView,
                 introspected, varint, hydrator>>
  /\ UNCHANGED <<buildVars, serVars, storeVars, internVars>>

\* after the loop: rttiMap.set(fqName, ...) and return { kind: "ref" }
RegisterReference ==
  /\ extraction.pc = "running"
  /\ TopFrame.i > Len(getProperties(TopFrame.fqName))
  /\ extraction' =
       [extraction EXCEPT
          !.rttiMap = @ \cup {TopFrame.fqName},
          !.stack = SubSeq(@, 1, Len(@) - 1),
          !.pc = IF Len(extraction.stack) = 1 THEN "returned" ELSE "running"]
  /\ UNCHANGED <<file, decoded, writer, sites, methods, flagView,
                 introspected, varint, hydrator>>
  /\ UNCHANGED <<buildVars, serVars, storeVars, internVars>>

\* the next run of the compiler starts with an empty rttiMap
NewBuild ==
  /\ extraction.pc \in {"returned", "thrown"}
  /\ extraction' = [pc |-> "idle", stack |-> <<>>, rttiMap |-> {},
                    expanded |-> <<>>]
  /\ UNCHANGED <<file, decoded, writer, sites, methods, flagView,
                 introspected, varint, hydrator>>
  /\ UNCHANGED <<buildVars, serVars, storeVars, internVars>>

NextReferences ==
  \/ \E symbol \in SymbolNames : ExtractTypeRTTI(symbol)
  \/ ExtractProperty
  \/ RegisterReference
  \/ NewBuild

SpecReferences == Init /\ [][NextReferences]_vars

\* ------------------------------------------------------------------------
\* hydrator.ts: Hydrator.init and the calls that answer from Hydrator.store
\* ------------------------------------------------------------------------

\* static store: MetadataStore before any assignment
NoStore == [set |-> FALSE]

\* new MetadataStore()
NewMetadataStore ==
  [set |-> TRUE, header |-> [loaded |-> FALSE], strings |-> <<>>,
   index |-> <<>>, heap |-> <<>>]

\* store.load(filePath) on the store object st, buf the bytes at filePath
\* or NoFile when readFileSync throws: the store afterwards and how the
\* promise ends
MetadataStoreLoad(st, buf) ==
  IF buf = NoFile \/ Len(buf) < 20
    THEN [store |-> st, result |-> "rejected"]
    ELSE IF lz4decompress(FileSections(buf).compressedHeap) = Undefined
      THEN [store |-> [st EXCEPT !.header = ParseHeader(buf)],
            result |-> "rejected"]
      ELSE [store |->
              [set |-> TRUE,
               header |-> ParseHeader(buf),
               strings |-> ParseStringTable(FileSections(buf).stringTableBuf,
                                            0, st.strings),
               index |-> ParseIndex(FileSections(buf).indexBuf, 0, st.index),
               heap |-> lz4decompress(FileSections(buf).compressedHeap)],
            result |-> "resolved"]

\* the file at filePath with the first byte of its compressed heap replaced,
\* so that lz4.decompress throws
DamagedHeap(buf) ==
  IF buf = NoFile THEN NoFile
  ELSE LET o2 == HEADER_SIZE + readUInt32LE(buf, 8) + readUInt32LE(buf, 12)
       IN  subarray(buf, 0, o2) \o <<0>> \o subarray(buf, o2 + 1, Len(buf))

\* hydrate: the keys of the object returned, one per member of the record
RECURSIVE hydrateProps(_, _, _, _)
hydrateProps(buf, strs, offset, n) ==
  IF n <= 0 THEN <<>>
  ELSE <<GetString(strs, decodeVarint(buf, offset).value)>>
         \o hydrateProps(buf, strs, SkipProps(buf, offset, 1), n - 1)

\* Hydrator.hydrate(typeName, data) on the store st
hydrate(st, typeName) ==
  LET entry == getEntryByName(st.strings, st.index, typeName)
      buf == getMetadataBuffer(st.heap, entry)
  IN  IF entry = NoEntry THEN [defined |-> FALSE]
      ELSE IF Len(buf) = 0 \/ buf[1] # REF_CLASS THEN [defined |-> FALSE]
      ELSE [defined |-> TRUE,
            keys |-> hydrateProps(buf, st.strings,
                       decodeVarint(buf, decodeVarint(buf, 1).next).next,
                       decodeVarint(buf, decodeVarint(buf, 1).next).value)]

\* getFunctionSignature: the parameters, each a name and a type code
RECURSIVE signatureParams(_, _, _, _)
signatureParams(buf, strs, offset, n) ==
  IF n <= 0 THEN <<>>
  ELSE <<[name |-> GetString(strs, decodeVarint(buf, offset).value),
          type |-> decodeVarint(buf, decodeVarint(buf, offset).next).value]>>
         \o signatureParams(buf, strs, SkipParams(buf, offset, 1), n - 1)

\* Hydrator.getFunctionSignature(funcName) on the store st
getFunctionSignature(st, funcName) ==
  LET entry == getEntryByName(st.strings, st.index, funcName)
      buf == getMetadataBuffer(st.heap, entry)
  IN  IF entry = NoEntry THEN [defined |-> FALSE]
      ELSE IF Len(buf) = 0 \/ buf[1] # REF_FUNCTION THEN [defined |-> FALSE]
      ELSE [defined |-> TRUE,
            params |-> signatureParams(buf, st.strings,
                         decodeVarint(buf, decodeVarint(buf, 1).next).next,
                         decodeVarint(buf, decodeVarint(buf, 1).next).value),
            returnType |->
              decodeVarint(buf,
                SkipParams(buf,
                  decodeVarint(buf, decodeVarint(buf, 1).next).next,
                  decodeVarint(buf, decodeVarint(buf, 1).next).value)).value]

\* Hydrator.getDecodedMetadata(typeName) on the store st
getDecodedMetadata(st, typeName) ==
  LET entry == getEntryByName(st.strings, st.index, typeName)
  IN  IF entry = NoEntry THEN [defined |-> FALSE]
      ELSE [defined |-> TRUE,
            entry |-> decodeRTTIEntry(getMetadataBuffer(st.heap, entry),
                                      st.strings)]

HydratorCalls == {"hydrate", "getFunctionSignature", "getDecodedMetadata"}

\* what a call of op answers when Hydrator.store is st: if (!Hydrator.store)
\* throw new Error("Hydrator not initialized. Call init() first.")
HydratorAnswer(st, op, name) ==
  IF ~st.set THEN [threw |-> "Hydrator not initialized"]
  ELSE CASE op = "hydrate" ->
              [threw |-> "", value |-> hydrate(st, name)]
         [] op = "getFunctionSignature" ->
              [threw |-> "", value |-> getFunctionSignature(st, name)]
         [] op = "getDecodedMetadata" ->
              [threw |-> "", value |-> getDecodedMetadata(st, name)]

\* await Hydrator.init(file): Hydrator.store = new MetadataStore(), then
\* await Hydrator.store.load(file)
HydratorInit(buf) ==
  /\ hydrator.inits < MaxInits
  /\ hydrator' =
       [store |-> MetadataStoreLoad(NewMetadataStore, buf).store,
        inits |-> hydrator.inits + 1,
        last |-> [op |-> "init",
                  result |-> MetadataStoreLoad(NewMetadataStore, buf).result,
                  before |-> hydrator.store]]
  /\ UNCHANGED <<file, decoded, writer, sites, methods, flagView,
                 introspected, varint, extraction>>
  /\ UNCHANGED <<buildVars, serVars, storeVars, internVars>>

\* Hydrator.hydrate, getFunctionSignature or getDecodedMetadata
HydratorCall(op, name) ==
  /\ hydrator' = [hydrator EXCEPT
                    !.last = [op |-> op, name |-> name,
                              answer |-> HydratorAnswer(hydrator.store, op,
                                                        name)]]
  /\ UNCHANGED <<file, decoded, writer, sites, methods, flagView,
                 introspected, varint, extraction>>
  /\ UNCHANGED <<buildVars, serVars, storeVars, internVars>>

\* a container is built; the Hydrator is initialised from it, from a path
\* that cannot be read and from a copy with a damaged heap, and is asked
NextHydrator ==
  \/ \E k \in 1..Len(Universe) : AddType(k, MaxCodecTypes)
  \/ WriteContainer
  \/ \E buf \in {file, DamagedHeap(file)} : HydratorInit(buf)
  \/ \E op \in HydratorCalls, name \in QueryNames : HydratorCall(op, name)

SpecHydrator == Init /\ [][NextHydrator]_vars

\* ------------------------------------------------------------------------
\* MetadataStore.load on a store that was loaded before
\* ------------------------------------------------------------------------

\* the declarations of the programs a later run of main is given: class A,
\* interface B, function f
RebuildTypes == {1, 2, 4}

\* a later run of main on a program with the one declaration Universe[k]:
\* a new RTTISerializer, addType, and metadata.bin written anew
Rebuild(k) ==
  /\ file # NoFile
  /\ file' = BuildContainer(addType(NewSerializer, Universe[k]).stringTable,
                            addType(NewSerializer, Universe[k]).index,
                            addType(NewSerializer, Universe[k]).heapBuffers)
  /\ file' # file
  /\ UNCHANGED <<decoded>>
  /\ UNCHANGED serVars
  /\ UNCHANGED storeVars
  /\ UNCHANGED internVars
  /\ UNCHANGED mainVars

\* one store object loads metadata.bin, and loads it again after it was
\* written anew or as it is
NextReload ==
  \/ \E k \in 1..Len(Universe) : AddType(k, MaxCodecTypes)
  \/ WriteContainer
  \/ \E k \in RebuildTypes : Rebuild(k)
  \/ Load

SpecReload == Init /\ [][NextReload]_vars

\* ------------------------------------------------------------------------
\* extractor.ts: the names derived for unions and intersections written in
\* place
\* ------------------------------------------------------------------------

\* class A_B {}, class C {}, class A {}, class B_C {}
RefA_B == TsReference(<<65, 95, 66>>, <<>>)
RefC == TsReference(<<67>>, <<>>)
RefA == TsReference(<<65>>, <<>>)
RefB_C == TsReference(<<66, 95, 67>>, <<>>)

\* A_B | C, A | B_C, A_B & C, A | C and string | number, written in place
NameTypes ==
  {TsUnion(<<RefA_B, RefC>>, NoSymbol),
   TsUnion(<<RefA, RefB_C>>, NoSymbol),
   TsIntersection(<<RefA_B, RefC>>, NoSymbol),
   TsUnion(<<RefA, RefC>>, NoSymbol),
   UnionInline}

\* function f(x: P): R for the types P and R
NameDeclarations ==
  {[name |-> <<102>>, parameters |-> <<[name |-> <<120>>, type |-> p]>>,
    type |-> r] : p \in NameTypes, r \in NameTypes}

\* the function declarations of one source file, visited in any order
NextNames == \E node \in NameDeclarations : VisitFunctionDeclaration(node)

SpecNames == Init /\ [][NextNames]_vars

\* builds of main, one after the other, over metadata.cache
NextBuild ==
  \/ \E c \in OldCaches : FindCache(c)
  \/ \E p \in Programs : StartBuild(p)
  \/ VisitNode
  \/ EndFile
  \/ Prune
  \/ SerializeNext
  \/ Emit

SpecBuild == Init /\ [][NextBuild]_vars

\* the build, the load and the queries
Next ==
  \/ \E k \in 1..Len(Universe) : AddType(k, MaxTypes)
  \/ WriteContainer
  \/ Load
  \/ \E name \in QueryNames : GetDecodedEntryByName(name)

Spec == Init /\ [][Next]_vars

\* the decoder on buffers that are not whole records
NextCodec ==
  \/ \E k \in 1..Len(Universe) : AddType(k, MaxCodecTypes)
  \/ WriteContainer
  \/ Load
  \/ \E e \in 1..Len(storeIndex) :
       \E cut \in 0..(storeIndex[e].dataLength - 1) : DecodeTruncated(e, cut)
  \/ \E e \in 1..Len(storeIndex) :
       \E kind \in UnknownKinds : DecodeUnknownKind(e, kind)

SpecCodec == Init /\ [][NextCodec]_vars

\* load of files whose header is not the reader's
NextHeader ==
  \/ \E k \in 1..Len(Universe) : AddType(k, MaxCodecTypes)
  \/ WriteContainer
  \/ \E magic \in FileMagics, version \in FileVersions :
       ReplaceHeader(magic, version)
  \/ Load
  \/ \E name \in QueryNames : GetDecodedEntryByName(name)

SpecHeader == Init /\ [][NextHeader]_vars

\* a reader of metadata.bin while main writes it
NextWrite ==
  \/ \E k \in 1..Len(Universe) : AddType(k, MaxCodecTypes)
  \/ BeginWrite
  \/ \E n \in ChunkEnds(writer.out) : WriteChunk(n)
  \/ Load

SpecWrite == Init /\ [][NextWrite]_vars

\* the queries of a loaded store, after a decode of a truncated record or
\* of a record of unknown kind or on their own
NextQuery ==
  \/ \E k \in 1..Len(Universe) : AddType(k, MaxCodecTypes)
  \/ WriteContainer
  \/ Load
  \/ \E e \in 1..Len(storeIndex) :
       \E cut \in {0, 1, storeIndex[e].dataLength - 1} : DecodeTruncated(e, cut)
  \/ \E e \in 1..Len(storeIndex) : DecodeUnknownKind(e, 255)
  \/ \E name \in QueryNames : GetDecodedEntryByName(name)
  \/ \E name \in QueryNames : GetEntryByHash(name)
  \/ \E name \in QueryNames : GetMetadataBuffer(name)
  \/ ListTypes

SpecQuery == Init /\ [][NextQuery]_vars

\* the string interner alone
NextInterner == \E str \in InternStrings : StringTableAdd(str)

SpecInterner == Init /\ [][NextInterner]_vars

\* ------------------------------------------------------------------------
\* Properties of the codec, the string table and the container
\* ------------------------------------------------------------------------

\* the addType call that registered name, 0 if none
AddedAs(name) ==
  IF \E e \in 1..Len(log) : Universe[log[e].k].fqName = name
    THEN CHOOSE e \in 1..Len(log) : Universe[log[e].k].fqName = name
    ELSE 0

\* the record the store decoded last, as it was handed to addType
DecodedMeta == Universe[log[AddedAs(decoded.name)].k]

\* a stored record was looked up by name and decoded
DecodedStored ==
  decoded.called /\ decoded.found /\ decoded.input = "stored"
  /\ AddedAs(decoded.name) > 0

\* the bytes of record e as the loaded store hands them out
StoredRecord(e) == getMetadataBuffer(heap, storeIndex[e])

\* C1: every TypeRef the encoder writes (the type of a member, of a
\* parameter, a return type, a member of a union or of an intersection) is
\* written as a discriminator followed by a payload: decodeRTTITypeRef at
\* the position where it was written returns the same TypeRef and leaves the
\* cursor where the encoder's bytes for it end.
C1_TypeRefRoundTrip ==
  loads > 0 =>
    \A e \in 1..Len(log) : \A i \in 1..Len(log[e].refs) :
      LET r == log[e].refs[i]
          d == decodeRTTITypeRef(StoredRecord(e), r.start, strings)
      IN  d.ref = r.ref /\ d.next = r.end

\* the constraints of a list of generic parameters
Constraints(generics) ==
  [i \in 1..Len(generics) |-> generics[i].constraint]

\* C2: a constraint that may be absent (of a generic parameter of a class,
\* an object type or a function; the key constraint of a mapped type) is
\* written behind a presence byte, so decodeRTTIEntry recovers it: the
\* decoded record has the constraints of the record that was added, absent
\* ones absent.
C2_OptionalConstraintRoundTrip ==
  DecodedStored =>
    /\ DecodedMeta.kind \in {REF_CLASS, REF_OBJECT, REF_FUNCTION} =>
         Constraints(decoded.result.generics)
           = Constraints(DecodedMeta.data.generics)
    /\ DecodedMeta.kind = REF_MAPPED =>
         decoded.result.keyConstraint = DecodedMeta.data.keyConstraint

\* C3: the overloads and the implementation signature of a member of a
\* class or object record round-trip: the decoded member has the overloads
\* and the implementation of the member that was added.
C3_OverloadsRoundTrip ==
  (DecodedStored /\ DecodedMeta.kind \in {REF_CLASS, REF_OBJECT}) =>
    \A j \in 1..Len(DecodedMeta.data.props) :
      "overloads" \in DOMAIN DecodedMeta.data.props[j] =>
        /\ j <= Len(decoded.result.props)
        /\ "overloads" \in DOMAIN decoded.result.props[j]
        /\ "implementation" \in DOMAIN decoded.result.props[j]
        /\ decoded.result.props[j].overloads
             = DecodedMeta.data.props[j].overloads
        /\ decoded.result.props[j].implementation
             = DecodedMeta.data.props[j].implementation

\* C4: the value of an enum member round-trips whatever it is: a number of
\* the int32 range stays that number, a string of any UTF-8 length stays
\* that string; the first byte of a string's length prefix is never taken
\* for the 0xFF marker of a number.
C4_EnumValueRoundTrip ==
  (DecodedStored /\ DecodedMeta.kind = REF_ENUM) =>
    decoded.result.members = DecodedMeta.data.members

\* the decoder for the annotation list at one of the encoder's sites
DecodeListAt(kind, site, buf, strs, start) ==
  CASE site = "member" -> RdMemberDecorators(buf, strs, Cursor(start))
    [] site = "parameter" /\ kind = REF_FUNCTION ->
         RdFunctionParamDecorators(buf, strs, Cursor(start))
    [] site = "parameter" -> RdParamDecorators(buf, strs, Cursor(start))
    [] site = "declaration" /\ kind = REF_FUNCTION ->
         RdFunctionDecorators(buf, strs, Cursor(start))
    [] OTHER -> RdTypeDecorators(buf, strs, Cursor(start))

\* C5: annotation lists have one encoding at every site (declaration,
\* member, parameter): decoding at the first byte of a list the encoder
\* wrote gives the list that was written and consumes exactly the bytes
\* written for it, the empty list and annotations without arguments
\* included.
C5_DecoratorListRoundTrip ==
  loads > 0 =>
    \A e \in 1..Len(log) : \A i \in 1..Len(log[e].decos) :
      LET m == log[e].decos[i]
          c == DecodeListAt(Universe[log[e].k].kind, m.site,
                            StoredRecord(e), strings, m.start)
      IN  Top(c) = m.list /\ c.off = m.end /\ ~c.oob

\* the lists of record e written at a site
ListsAt(e, site) ==
  {log[e].decos[i].list :
     i \in {j \in 1..Len(log[e].decos) : log[e].decos[j].site = site}}

\* a class with annotations at its declaration, a member and a parameter,
\* with and without arguments, and an empty list; a function with an
\* annotated parameter; both loaded
C5_Witness ==
  /\ loads > 0
  /\ \E e \in 1..Len(log) :
       /\ Universe[log[e].k].kind = REF_CLASS
       /\ \A site \in {"declaration", "member", "parameter"} :
            \E l \in ListsAt(e, site) : l # <<>>
       /\ <<>> \in ListsAt(e, "member")
       /\ \E l \in ListsAt(e, "member") :
            /\ \E a \in 1..Len(l) : l[a].args = <<>>
            /\ \E a \in 1..Len(l) : l[a].args # <<>>
  /\ \E e \in 1..Len(log) :
       /\ Universe[log[e].k].kind = REF_FUNCTION
       /\ \E l \in ListsAt(e, "parameter") : l # <<>>
       /\ <<>> \in ListsAt(e, "declaration")

\* C6: decodeRTTIEntry on a truncated record or on a record of unknown kind
\* fails with an error: it returns no record and reads no byte at or past
\* the end of the buffer.
C6_MalformedRejected ==
  (decoded.called /\ decoded.found
   /\ decoded.input \in {"truncated", "unknown kind"}) =>
    decoded.outcome = "error" /\ ~decoded.oob

\* C7: the interner.  add returns the index the first add of the string
\* returned; the first add of a string returns the count before it and
\* grows the table by one; adding a string again changes neither the count
\* nor an index; getByOffset(add(s)) = s; getOffset(getByOffset(i)) = i for
\* every index of the table.
C7_InternerLaws ==
  /\ Len(stringTable.strings) = Len(stringTable.reverse)
  /\ Len(stringTable.reverse) = Len(firstAdd)
  /\ \A i \in 0..(Len(stringTable.reverse) - 1) :
       getOffset(stringTable, getByOffset(stringTable, i)) = i
  /\ \A j \in 1..Len(firstAdd) :
       /\ getOffset(stringTable, firstAdd[j][1]) = firstAdd[j][2]
       /\ getByOffset(stringTable, firstAdd[j][2]) = firstAdd[j][1]
  /\ lastAdd.called =>
       /\ lastAdd.idx = MapGet(firstAdd, lastAdd.str)
       /\ getByOffset(stringTable, lastAdd.idx) = lastAdd.str
       /\ ~lastAdd.presentBefore =>
            /\ lastAdd.idx = lastAdd.sizeBefore
            /\ Len(stringTable.reverse) = lastAdd.sizeBefore + 1
       /\ lastAdd.presentBefore =>
            /\ lastAdd.idx = lastAdd.offsetBefore
            /\ Len(stringTable.reverse) = lastAdd.sizeBefore

\* a string that is not the newest of a table of several is added again
C7_Witness ==
  /\ lastAdd.called
  /\ lastAdd.presentBefore
  /\ Len(stringTable.reverse) >= 2
  /\ lastAdd.idx < Len(stringTable.reverse) - 1

\* C8: the string table on disk holds every interned string once,
\* NUL-terminated, in the order of first insertion, and load parses it back:
\* after a load the store has as many strings as the interner, and string k
\* of the store is string k of the interner.
C8_StringTableRoundTrip ==
  loads = 1 =>
    /\ Len(strings) = Len(stringTable.reverse)
    /\ \A k \in 1..Len(strings) : strings[k] = stringTable.reverse[k]

\* C9: after any addType calls the index has one entry per call, in call
\* order; entry i has the length of the bytes encoded for record i and the
\* offset that is the sum of the lengths before it; the ranges are disjoint
\* and cover the heap; currentHeapOffset is the length of the heap, and the
\* heap's bytes in the range of entry i are the bytes of record i.
C9_HeapLayout ==
  LET heapBytes == concatUint8Arrays(heapBuffers)
      range(i) == index[i].dataOffset
                    ..(index[i].dataOffset + index[i].dataLength - 1)
  IN  /\ Len(index) = Len(log)
      /\ Len(heapBuffers) = Len(log)
      /\ currentHeapOffset = Len(heapBytes)
      /\ \A i \in 1..Len(index) :
           /\ index[i].hash = fnv1aHash(Universe[log[i].k].fqName)
           /\ getByOffset(stringTable, index[i].stringOffset)
                = Universe[log[i].k].fqName
           /\ index[i].dataLength = Len(heapBuffers[i])
           /\ index[i].dataOffset
                = (IF i = 1 THEN 0
                   ELSE index[i - 1].dataOffset + index[i - 1].dataLength)
           /\ subarray(heapBytes, index[i].dataOffset,
                       index[i].dataOffset + index[i].dataLength)
                = heapBuffers[i]
      /\ \A i, j \in 1..Len(index) : i # j => range(i) \cap range(j) = {}
      /\ \A p \in 0..(Len(heapBytes) - 1) :
           \E i \in 1..Len(index) : p \in range(i)

\* two records of different lengths were added
C9_Witness ==
  /\ Len(index) = 2
  /\ index[2].dataOffset > 0
  /\ index[1].dataLength # index[2].dataLength
  /\ log[1].k # log[2].k

\* C10: build, then load.  The sections the store slices out of the file
\* are the sections that were built, and for every record that was added
\* getMetadataBuffer(getEntryByName(name)) is the byte sequence
\* serializeMetadata produced for it.
C10_BuildThenLoad ==
  loads > 0 =>
    LET sections == buildBinarySections(stringTable, index, heapBuffers)
    IN  /\ FileSections(file).stringTableBuf = sections.stringTableBuffer
        /\ FileSections(file).indexBuf = sections.indexBuffer
        /\ heap = sections.heapBuffer
        /\ \A e \in 1..Len(log) :
             LET entry == getEntryByName(strings, storeIndex,
                                         Universe[log[e].k].fqName)
             IN  /\ entry # NoEntry
                 /\ getMetadataBuffer(heap, entry) = heapBuffers[e]
                 /\ getMetadataBuffer(heap, entry)
                      = serializeMetadata(stringTable, Universe[log[e].k])

\* two records with different names and bytes were built and loaded
C10_Witness ==
  /\ loads > 0
  /\ Len(log) = 2
  /\ log[1].k # log[2].k
  /\ heapBuffers[1] # heapBuffers[2]
  /\ storeIndex[2].dataOffset > 0

\* the name the name index of a stored record resolves to
RecordName(entry) ==
  GetString(strings, decodeVarint(getMetadataBuffer(heap, entry), 1).value)

\* C11: after a load, for every registered name n, getEntryByName(n) and
\* getEntryByHash(fnv1aHash(n)) both return an entry, and the name index of
\* the record the entry points at resolves to n, also when two registered
\* names have the same hash.
C11_IndexLookup ==
  loads > 0 =>
    \A e \in 1..Len(log) :
      LET n == Universe[log[e].k].fqName
          byName == getEntryByName(strings, storeIndex, n)
          byHash == getEntryByHash(storeIndex, fnv1aHash(n))
      IN  /\ byName # NoEntry /\ RecordName(byName) = n
          /\ byHash # NoEntry /\ RecordName(byHash) = n

\* a load call that read a header with a foreign magic field
MagicMismatch(l) == l.header.magic # META_MAGIC_LE

\* a load call that read the right magic and a foreign version field
VersionMismatch(l) ==
  l.header.magic = META_MAGIC_LE /\ l.header.version # PROTOCOL_VERSION

\* a load call that read the reader's magic and version
HeaderMatch(l) ==
  l.header.magic = META_MAGIC_LE /\ l.header.version = PROTOCOL_VERSION

\* C12: load rejects a file whose magic field is not META, and no lookup on
\* a store that was only given such files returns an entry; load of a file
\* with the right magic and another version ends in a result that is
\* neither the result of a load of a matching file nor the result of a load
\* of a file with a foreign magic.
C12_HeaderValidated ==
  /\ \A i \in 1..Len(loadLog) :
       MagicMismatch(loadLog[i]) => loadLog[i].result = "rejected"
  /\ (loadLog # <<>> /\ \A i \in 1..Len(loadLog) : MagicMismatch(loadLog[i]))
       => \A name \in QueryNames :
            getEntryByName(strings, storeIndex, name) = NoEntry
  /\ \A i, j \in 1..Len(loadLog) :
       (VersionMismatch(loadLog[i]) /\ ~VersionMismatch(loadLog[j]))
         => loadLog[i].result # loadLog[j].result

\* C13: whenever a reader reads metadata.bin while a build writes it, the
\* bytes it reads are a complete container: the one the build writes, which
\* is also the one a previous build of the same program wrote.
C13_AtomicWrite ==
  \A i \in 1..Len(loadLog) :
    loadLog[i].read = BuildContainer(stringTable, index, heapBuffers)

\* strings and index after n loads of the file: each load appends
RECURSIVE LoadedStrings(_)
LoadedStrings(n) ==
  IF n = 0 THEN <<>>
  ELSE ParseStringTable(FileSections(file).stringTableBuf, 0,
                        LoadedStrings(n - 1))

RECURSIVE LoadedIndex(_)
LoadedIndex(n) ==
  IF n = 0 THEN <<>>
  ELSE ParseIndex(FileSections(file).indexBuf, 0, LoadedIndex(n - 1))

\* C14: once a load has completed, whatever queries were made since
\* (lookups by name and by hash, getMetadataBuffer, getDecodedEntryByName,
\* listTypes, decodes of truncated records and of records of unknown kind),
\* header, strings, index and heap are what the loads made of the file, and
\* the result of the last lookup is the one the loaded file determines.
C14_StoreImmutable ==
  loads > 0 =>
    /\ header = ParseHeader(file)
    /\ heap = lz4decompress(FileSections(file).compressedHeap)
    /\ strings = LoadedStrings(loads)
    /\ storeIndex = LoadedIndex(loads)
    /\ (decoded.called /\ decoded.found /\ decoded.input = "buffer") =>
         decoded.result =
           getMetadataBuffer(lz4decompress(FileSections(file).compressedHeap),
             getEntryByName(LoadedStrings(loads), LoadedIndex(loads),
                            decoded.name))
    /\ ("after" \in DOMAIN decoded /\ decoded.input = "hash") =>
         decoded.result =
           getEntryByHash(LoadedIndex(loads), fnv1aHash(decoded.name))

\* a lookup, made after a decode of a truncated record, found its record in
\* a store whose string table holds more than names
C14_Witness ==
  /\ loads > 0
  /\ decoded.called /\ decoded.found
  /\ "after" \in DOMAIN decoded
  /\ decoded.after = "truncated"
  /\ Len(strings) > Len(listTypes(strings, storeIndex))

\* the nodes of a program as <<source file, node>> positions
Positions(p) ==
  UNION {{<<f, n>> : n \in 1..Len(p[f].nodes)} : f \in 1..Len(p)}

\* the declarations of the program under way that main has visited
Visited ==
  {q \in Positions(program) :
     /\ program[q[1]].nodes[q[2]].declared
     /\ q[1] < cursor[1] \/ (pc = "scan" /\ q[1] = cursor[1] /\ q[2] < cursor[2])}

\* the names a program declares or aliases
NodeNames(p) == {p[q[1]].nodes[q[2]].meta.fqName : q \in Positions(p)}

\* metadata.cache is there and carries the version of this protocol
VersionMatches(cf) ==
  cf # NoCache /\ "version" \in DOMAIN cf /\ cf.version = PROTOCOL_VERSION

\* the per-declaration map main starts from
FoundTypes == IF VersionMatches(cacheFile) THEN cacheFile.types ELSE <<>>

\* the cache holds an entry for the name of the record with the hash of the
\* record
Hit(types, meta) ==
  MapHas(types, meta.fqName) /\ MapGet(types, meta.fqName).hash = hashType(meta)

\* C15: while main runs, for every declaration it has visited: if the cache
\* it started from holds an entry for the name with the hash of the fresh
\* record, that entry is unchanged and its record is the one registered;
\* otherwise the entry holds the new hash and the fresh record, which is
\* the one registered.  Every entry under a name that was not visited is
\* the entry the cache started with.
C15_CacheCompare ==
  pc \in {"scan", "serialize"} =>
    /\ \A q \in Visited :
         LET meta == program[q[1]].nodes[q[2]].meta
         IN  IF Hit(FoundTypes, meta)
               THEN /\ MapGet(cache.types, meta.fqName)
                         = MapGet(FoundTypes, meta.fqName)
                    /\ MapGet(rttiMap, meta.fqName)
                         = MapGet(FoundTypes, meta.fqName).meta
               ELSE /\ MapGet(cache.types, meta.fqName)
                         = [fqName |-> meta.fqName, hash |-> hashType(meta),
                            meta |-> meta]
                    /\ MapGet(rttiMap, meta.fqName) = meta
    /\ \A i \in 1..Len(cache.types) :
         (\A q \in Visited :
            program[q[1]].nodes[q[2]].meta.fqName # cache.types[i][1])
           => /\ MapHas(FoundTypes, cache.types[i][1])
              /\ cache.types[i][2] = MapGet(FoundTypes, cache.types[i][1])
    /\ pc = "scan" =>
         \A i \in 1..Len(FoundTypes) : MapHas(cache.types, FoundTypes[i][1])

\* main has visited every declaration of a program of which the cache held
\* two declarations with their hashes and one with another hash
C15_Witness ==
  /\ pc = "serialize"
  /\ Cardinality({q \in Visited :
                    Hit(FoundTypes, program[q[1]].nodes[q[2]].meta)}) = 2
  /\ \E q \in Visited :
       /\ MapHas(FoundTypes, program[q[1]].nodes[q[2]].meta.fqName)
       /\ ~Hit(FoundTypes, program[q[1]].nodes[q[2]].meta)

\* every entry of the cache carries the hash of its record
CorrectHashes(cf) ==
  cf = NoCache
  \/ \A i \in 1..Len(cf.types) : cf.types[i][2].hash = hashType(cf.types[i][2].meta)

\* C16: two builds of the same program write the same metadata.bin (the same
\* header, string table, index and heap), whether they found no cache or a
\* cache whose entries carry the hashes of their records.
C16_CacheIndependent ==
  \A i, j \in 1..Len(buildLog) :
    (/\ buildLog[i].program = buildLog[j].program
     /\ CorrectHashes(buildLog[i].found)
     /\ CorrectHashes(buildLog[j].found))
      => buildLog[i].out = buildLog[j].out

\* C17: once main has pruned, cache.types holds no name that is not
\* registered in this build, whatever metadata.cache held, and neither does
\* the metadata.cache the build writes.
C17_TypesPruned ==
  /\ pc = "serialize" => MapKeys(cache.types) \subseteq MapKeys(rttiMap)
  /\ (pc = "idle" /\ buildLog # <<>>) =>
       MapKeys(cacheFile.types)
         \subseteq MapKeys(buildLog[Len(buildLog)].registered)

\* a build has pruned a cache that held a name the build did not register
C17_Witness ==
  /\ pc = "serialize"
  /\ VersionMatches(cacheFile)
  /\ MapKeys(cacheFile.types) \ MapKeys(rttiMap) # {}
  /\ cache.types # <<>>

\* the names metadata.cache holds a record or a hash of
CachedNames(cf) ==
  MapKeys(cf.types)
  \cup UNION {MapKeys(cf.files[i][2].typeHashes) : i \in 1..Len(cf.files)}
  \cup UNION {{cf.files[i][2].types[j].fqName :
                 j \in 1..Len(cf.files[i][2].types)} : i \in 1..Len(cf.files)}

\* C18: the metadata.cache a build writes holds no record and no hash of a
\* name that no source file of the program of that build declares, neither
\* in types nor in the entry of any source file.
C18_CachePruned ==
  (pc = "idle" /\ buildLog # <<>>) =>
    CachedNames(cacheFile) \subseteq NodeNames(buildLog[Len(buildLog)].program)

\* the entry of cache.types a build without a cache makes for a record
FreshEntry(meta) ==
  [fqName |-> meta.fqName, hash |-> hashType(meta), meta |-> meta]

\* C19: a build that finds a metadata.cache whose version is missing or is
\* not PROTOCOL_VERSION starts from an empty cache: every entry of
\* cache.types is the fresh record of a declaration of the program with its
\* hash, every record registered is a fresh one, and cache.files has the
\* source files of the program only; the metadata.cache a build writes
\* carries PROTOCOL_VERSION.
C19_VersionGuard ==
  /\ (pc # "idle" /\ cacheFile # NoCache /\ ~VersionMatches(cacheFile)) =>
       /\ \A i \in 1..Len(cache.types) :
            \E q \in Positions(program) :
              /\ program[q[1]].nodes[q[2]].meta.fqName = cache.types[i][1]
              /\ cache.types[i][2] = FreshEntry(program[q[1]].nodes[q[2]].meta)
       /\ \A i \in 1..Len(rttiMap) :
            \E q \in Positions(program) :
              /\ program[q[1]].nodes[q[2]].meta.fqName = rttiMap[i][1]
              /\ rttiMap[i][2] = program[q[1]].nodes[q[2]].meta
       /\ MapKeys(cache.files)
            \subseteq {program[f].fileName : f \in 1..Len(program)}
  /\ (pc = "idle" /\ buildLog # <<>>) =>
       /\ cacheFile.version = PROTOCOL_VERSION
       /\ (buildLog[Len(buildLog)].found # NoCache
            /\ ~VersionMatches(buildLog[Len(buildLog)].found)) =>
             /\ \A i \in 1..Len(cacheFile.types) :
                  \E q \in Positions(program) :
                    /\ program[q[1]].nodes[q[2]].meta.fqName
                         = cacheFile.types[i][1]
                    /\ cacheFile.types[i][2].hash
                         = hashType(program[q[1]].nodes[q[2]].meta)
                    /\ cacheFile.types[i][2].meta
                         = JsonCopy(program[q[1]].nodes[q[2]].meta)
             /\ MapKeys(cacheFile.files)
                  \subseteq {program[f].fileName : f \in 1..Len(program)}

\* a build has ended that found a cache of another version with an entry
\* for a name the program declares, under the hash of the declaration
C19_Witness ==
  /\ pc = "idle" /\ buildLog # <<>>
  /\ buildLog[Len(buildLog)].found # NoCache
  /\ ~VersionMatches(buildLog[Len(buildLog)].found)
  /\ \E q \in Positions(program) :
       /\ program[q[1]].nodes[q[2]].declared
       /\ Hit(buildLog[Len(buildLog)].found.types,
              program[q[1]].nodes[q[2]].meta)

\* two calls of extractTypeRTTI on composites of the same kind with the same
\* member types
SameShape(s, t) ==
  /\ s.type.flags = t.type.flags
  /\ s.type.types = t.type.types

\* the records of the registry that hold the composite of the call s
CompositeRecords(s) ==
  {k \in 1..Len(rttiMap) :
     /\ rttiMap[k][2].kind \in {REF_UNION, REF_INTERSECTION}
     /\ rttiMap[k][2].kind = MapGet(rttiMap, s.ref.fqName).kind
     /\ rttiMap[k][2].data.members
          = MapGet(rttiMap, s.ref.fqName).data.members}

\* C20: a union or intersection of the same kind and members that
\* extractTypeRTTI meets at two use sites, through an alias or written in
\* place, gets the same name at both and has one record in the registry
C20_CompositeDedup ==
  \A i \in DOMAIN sites : \A j \in DOMAIN sites :
    SameShape(sites[i], sites[j]) =>
      /\ sites[i].ref = sites[j].ref
      /\ Cardinality(CompositeRecords(sites[i])) = 1

\* the calls on unions and intersections made in the step
NewSites == {sites'[k] : k \in (Len(sites) + 1)..Len(sites')}

\* the registry after the step holds the composite the call s derived
CompositeKept(s) ==
  /\ MapHas(rttiMap', s.ref.fqName)
  /\ MapGet(rttiMap', s.ref.fqName).kind = s.kind
  /\ MapGet(rttiMap', s.ref.fqName).data.members = s.members

\* the registry after the step holds the record of the declaration
DeclarationKept(node) ==
  /\ MapHas(rttiMap', node.name)
  /\ MapGet(rttiMap', node.name).kind = REF_FUNCTION

\* a step that visits a function declaration keeps its record and the
\* composites derived on the way under other names
FunctionStepKeeps ==
  \A node \in RegistryDeclarations :
    VisitFunctionDeclaration(node) =>
      /\ DeclarationKept(node)
      /\ \A s \in NewSites : s.ref.fqName # node.name => CompositeKept(s)

\* a step that visits a type alias declaration keeps the composites derived
AliasStepKeeps ==
  \A node \in TypeAliasDeclarations :
    VisitTypeAliasDeclaration(node) => \A s \in NewSites : CompositeKept(s)

\* C21: the registry keeps, for each name, the record of the last
\* registration of that name: after a declaration is visited its record is
\* the one under its name, and each union or intersection derived while a
\* declaration is visited is the record under the derived name, unless the
\* declaration itself has that name and is registered after it
C21_LastRegistrationKept == [][FunctionStepKeeps /\ AliasStepKeeps]_vars

\* the members that declare a method of the name, in declaration order
RECURSIVE DeclarationsOf(_, _, _)
DeclarationsOf(members, name, i) ==
  IF i > Len(members) THEN <<>>
  ELSE (IF isMethod(members[i]) /\ members[i].name = name
          THEN <<members[i]>> ELSE <<>>)
         \o DeclarationsOf(members, name, i + 1)

\* the signatures a method entry holds: its overloads, then its
\* implementation
SignaturesOf(prop) ==
  OrElse(prop, "overloads", <<>>)
    \o (IF "implementation" \in DOMAIN prop THEN <<prop.implementation>>
                                             ELSE <<>>)

\* the signatures of declarations: those without a body in declaration
\* order, then those with a body
SignaturesDeclared(decls) ==
  LET sig(d) == MethodOverload(d, Context(<<>>, <<>>))
      bodiless == SelectSeq(decls, LAMBDA d : ~d.body)
      bodied == SelectSeq(decls, LAMBDA d : d.body)
  IN  [k \in 1..Len(bodiless) |-> sig(bodiless[k])]
        \o [k \in 1..Len(bodied) |-> sig(bodied[k])]

MethodNames(members) ==
  {members[i].name : i \in {k \in 1..Len(members) : isMethod(members[k])}}

\* C22: extractMethodGroups emits one method entry per method name, and
\* the overloads and the implementation of the entry are the declarations
\* of that name, each once
C22_MethodGroups ==
  methods.called =>
    /\ {methods.props[k].name : k \in 1..Len(methods.props)}
         = MethodNames(methods.members)
    /\ Len(methods.props) = Cardinality(MethodNames(methods.members))
    /\ \A k \in 1..Len(methods.props) :
         SignaturesOf(methods.props[k])
           = SignaturesDeclared(
               DeclarationsOf(methods.members, methods.props[k].name, 1))

\* bit k of a flags value, by division
FlagBit(flags, k) == (flags \div (2 ^ k)) % 2 = 1

\* the flags value with bit k inverted
Flip(flags, k) ==
  IF FlagBit(flags, k) THEN flags - 2 ^ k ELSE flags + 2 ^ k

\* C23: decodeVisibility is private when bit 3 is set, protected when bit 4
\* is set and bit 3 is clear, public otherwise; isStatic, isReadonly and
\* isOptional read bits 0, 1 and 2; no decoder depends on a bit of another;
\* and the flags of a property decode to its modifiers
C23_Visibility ==
  flagView.called =>
    /\ flagView.view.visibility
         = (IF FlagBit(flagView.flags, 3) THEN "private"
            ELSE IF FlagBit(flagView.flags, 4) THEN "protected"
            ELSE "public")
    /\ flagView.view.static = FlagBit(flagView.flags, 0)
    /\ flagView.view.readonly = FlagBit(flagView.flags, 1)
    /\ flagView.view.optional = FlagBit(flagView.flags, 2)
    /\ \A k \in 0..4 :
         /\ k # 0 => isStatic(Flip(flagView.flags, k)) = flagView.view.static
         /\ k # 1 => isReadonly(Flip(flagView.flags, k))
                       = flagView.view.readonly
         /\ k # 2 => isOptional(Flip(flagView.flags, k))
                       = flagView.view.optional
         /\ k \notin {3, 4} => decodeVisibility(Flip(flagView.flags, k))
                                 = flagView.view.visibility
    /\ flagView.source = "member" =>
         /\ flagView.view.static = ("static" \in flagView.modifiers)
         /\ flagView.view.readonly = ("readonly" \in flagView.modifiers)
         /\ flagView.view.optional = flagView.questionToken
         /\ flagView.view.visibility
              = (IF "private" \in flagView.modifiers THEN "private"
                 ELSE IF "protected" \in flagView.modifiers THEN "protected"
                 ELSE "public")

\* both visibility bits set, with other bits: private
C23_Witness ==
  /\ flagView.called
  /\ flagView.source = "number"
  /\ FlagBit(flagView.flags, 3) /\ FlagBit(flagView.flags, 4)
  /\ FlagBit(flagView.flags, 0) /\ FlagBit(flagView.flags, 5)
  /\ flagView.view.visibility = "private"

\* the Introspector was asked for a record of the store of one of the kinds
IntrospectedKind(op, kinds) ==
  /\ introspected.called
  /\ introspected.op = op
  /\ introspected.found
  /\ Len(introspected.buf) > 0
  /\ introspected.buf[1] \in kinds

\* C24: for a class or function record getGenerics returns the generics
\* the decoder returns for the same bytes
C24_GenericsAgree ==
  IntrospectedKind("getGenerics", {REF_CLASS, REF_FUNCTION}) =>
    introspected.result
      = DecoderEntry(introspected.buf, strings).generics

\* C25: for a class or object record getBaseTypes returns the bases the
\* decoder returns for the same bytes
C25_BasesAgree ==
  IntrospectedKind("getBaseTypes", {REF_CLASS, REF_OBJECT}) =>
    introspected.result = DecoderEntry(introspected.buf, strings).bases

\* C26: for 0 <= n <= 2^31 - 1, decodeVarint(encodeVarint(n), 0) returns the
\* value n and next = the length of the encoding; every byte but the last
\* has its high bit set, the last has it clear, and n < 128 is encoded as
\* the single byte n
C26_VarintRoundTrip ==
  varint.called =>
    /\ varint.value = varint.num
    /\ varint.next = Len(varint.buf)
    /\ Len(varint.buf) >= 1
    /\ \A i \in 1..Len(varint.buf) :
         /\ varint.buf[i] \in 0..255
         /\ (varint.buf[i] >= 128) <=> (i < Len(varint.buf))
    /\ (varint.num < 128 => varint.buf = <<varint.num>>)

\* 2^31 - 1 was encoded in five bytes and read back
C26_Witness ==
  /\ varint.called
  /\ varint.num = MaxVarint
  /\ varint.buf = <<255, 255, 255, 255, 7>>
  /\ varint.value = MaxVarint
  /\ varint.next = 5

\* the number of times fqName was expanded in this build
RECURSIVE Expansions(_, _)
Expansions(expanded, fqName) ==
  IF expanded = <<>> THEN 0
  ELSE (IF expanded[1] = fqName THEN 1 ELSE 0)
         + Expansions(Tail(expanded), fqName)

\* C27: extractTypeRTTI terminates on self-referential and mutually
\* referential reference types: no call runs out of stack, no named type is
\* expanded more than once in a build, and a type that is being expanded is
\* not expanded again inside its own expansion
C27_ExpandedOnce ==
  /\ extraction.pc # "thrown"
  /\ \A fqName \in SymbolNames :
       Expansions(extraction.expanded, fqName) <= 1
  /\ \A i, j \in 1..Len(extraction.stack) :
       extraction.stack[i].fqName = extraction.stack[j].fqName => i = j

\* C28: after a Hydrator.init that failed, Hydrator.store is what it was
\* before the call: hydrate, getFunctionSignature and getDecodedMetadata
\* throw 'Hydrator not initialized' if they did before, and answer from the
\* store loaded earlier otherwise
C28_FailedInitKeepsStore ==
  (hydrator.last.op = "init" /\ hydrator.last.result = "rejected") =>
    /\ hydrator.store = hydrator.last.before
    /\ \A op \in HydratorCalls, name \in QueryNames :
         HydratorAnswer(hydrator.store, op, name)
           = HydratorAnswer(hydrator.last.before, op, name)

\* the names asked of a store that was loaded twice: every name of a record
\* of the model, and "Z"
ReloadNames ==
  {Universe[k].fqName : k \in 1..Len(Universe)} \cup {<<90>>}

\* a store loaded only with the file the last load call read
FreshStore ==
  MetadataStoreLoad(NewMetadataStore, loadLog[Len(loadLog)].read).store

\* C29: after a load, listTypes, getEntryByName, getEntryByHash,
\* getMetadataBuffer and getStrings return what they return on a fresh
\* store loaded only with the file this load read, whatever the store had
\* loaded before
C29_LoadReplaces ==
  (loadLog # <<>> /\ loadLog[Len(loadLog)].result = "resolved") =>
    /\ strings = FreshStore.strings
    /\ listTypes(strings, storeIndex)
         = listTypes(FreshStore.strings, FreshStore.index)
    /\ \A name \in ReloadNames :
         /\ getEntryByName(strings, storeIndex, name)
              = getEntryByName(FreshStore.strings, FreshStore.index, name)
         /\ getEntryByHash(storeIndex, fnv1aHash(name))
              = getEntryByHash(FreshStore.index, fnv1aHash(name))
         /\ getEntryByName(strings, storeIndex, name) # NoEntry =>
              getMetadataBuffer(heap,
                                getEntryByName(strings, storeIndex, name))
                = getMetadataBuffer(FreshStore.heap,
                    getEntryByName(FreshStore.strings, FreshStore.index,
                                   name))

\* two calls on unions or intersections written in place, made with the
\* same prefix, that derived the same name
SameDerivedName(s, t) ==
  /\ s.type.aliasSymbol = NoSymbol
  /\ t.type.aliasSymbol = NoSymbol
  /\ s.fqPrefix = t.fqPrefix
  /\ s.ref = t.ref

\* C30: within one prefix, two unions or intersections written in place
\* get the same derived name only if they have the same kind and the same
\* list of member TypeRefs, and the record a use site references has the
\* kind and the members of the type at that site
C30_NamesInjective ==
  /\ \A i \in DOMAIN sites : \A j \in DOMAIN sites :
       SameDerivedName(sites[i], sites[j]) =>
         /\ sites[i].kind = sites[j].kind
         /\ sites[i].members = sites[j].members
  /\ \A i \in DOMAIN sites :
       (sites[i].type.aliasSymbol = NoSymbol
        /\ MapHas(rttiMap, sites[i].ref.fqName)) =>
         /\ MapGet(rttiMap, sites[i].ref.fqName).kind = sites[i].kind
         /\ MapGet(rttiMap, sites[i].ref.fqName).data.members
              = sites[i].members

====
